---- MODULE Spec2Model ----
(***************************************************************************)
(* Markio conversion orchestration layer.                                  *)
(*                                                                         *)
(*  - the batch runner of scripts/run_local.py: process_files_in_folder,   *)
(*    ConcurrentProcessor (asyncio.Semaphore + asyncio.gather) and the     *)
(*    chunked_iterable generator;                                          *)
(*  - markio/utils/model_manager.py: ModelManager and its callers.         *)
(*                                                                         *)
(*  - one conversion task: process_file of scripts/run_local.py down to   *)
(*    the parsers, markio/utils/file_utils.py (process_resource_path,      *)
(*    download_file_from_url) and markio/utils/libreoffice_converter.py;   *)
(*  - merge_json_files and process_files_in_folder_submit of               *)
(*    scripts/run_local.py.                                                *)
(*                                                                         *)
(* Spec      : one run of a run_local.py entry point.                      *)
(* SpecLive  : the same run under a fair event loop.                       *)
(* SpecMM    : threads calling the shared ModelManager instance.           *)
(* SpecTask  : a call of process_file, process_resource_path,              *)
(*             download_file_from_url or convert_by_libreoffice.           *)
(* SpecMerge : one call of merge_json_files.                               *)
(* SpecSubmit: one call of process_files_in_folder_submit.                 *)
(* SpecUpload: concurrent requests of the upload endpoints.                *)
(***************************************************************************)
EXTENDS Integers, Sequences, FiniteSets, TLC

\* ------------------------------------------------------------------ bounds
MaxFiles == 3
MaxWorkers == 2
MaxBatch == 3
NThreads == 2
MaxCallers == 2
MaxChunks == 1
MaxTree == 2
MaxLines == 2
MaxMerges == 2

\* Concurrent requests of the upload endpoints.
NRequests == 2

\* ------------------------------------------------------ run_local.py state
VARIABLES
    entry,            \* the entry point of run_local.py this run calls
    files,            \* get_all_files(folder_path): file ids, in walk order
    ext,              \* ext[f]: os.path.splitext(f)[-1][1:] of file f
    max_workers,      \* argument max_workers
    batch_size,       \* argument batch_size / size
    processor,        \* whether the ConcurrentProcessor has been constructed
    supported_files,  \* the list handed to process_files_batched (its parameter files)
    pc,               \* position of the entry point's coroutine / generator
    i,                \* process_files_batched: loop variable i; chunked_iterable: items consumed from it
    batch,            \* process_files_batched: the current slice files[i : i + batch_size]
    chunks,           \* the batches submitted / the chunks yielded so far, in order
    semaphore,        \* ConcurrentProcessor.semaphore._value
    task,             \* task[f]: state of the coroutine process_file_with_semaphore(f)
    raised,           \* raised[f]: what handling f did (returned str / non-str, or the exception raised)
    result,           \* result[f]: the result of f's task as asyncio.gather sees it
    log,              \* log[f]: the terminal log record written for f
    gather_result,    \* the list the last asyncio.gather returned (discarded by the code)
    ret,              \* the value the entry point returned to its caller
    exc               \* the exception the entry point raised to its caller

batchVars == <<entry, files, ext, max_workers, batch_size, processor, supported_files, pc, i,
               batch, chunks, semaphore, task, raised, result, log, gather_result,
               ret, exc>>

\* ------------------------------------------------- model_manager.py state
VARIABLES
    pdf_parse_engine,      \* settings.pdf_parse_engine
    vlm_server_url,        \* settings.vlm_server_url ("" when not set)
    pipeline_initialized,  \* ModelManager.pipeline_initialized
    vlm_initialized,       \* ModelManager.vlm_initialized
    current_engine,        \* ModelManager.current_engine ("None" for None)
    initialization_error,  \* ModelManager._initialization_error ("None" for None)
    models,                \* ModelManager._models: the engines a model is stored for
    lock,                  \* ModelManager._lock: the thread that owns it, 0 when free
    tpc,                   \* tpc[t]: where thread t is in the method it called
    frame,                 \* frame[t]: the locals of t's initialize_models call
    loads,                 \* heavy loader calls since the last reset(), per loader and successful
    attempts,              \* initialize_models calls that got past both early returns since the last reset()
    firstRet,              \* what the first initialize_models call to return since the last reset() returned
    lastRet,               \* what the latest initialize_models call to return since the last reset() returned
    retried                \* whether the last reset() cleared a recorded error

mmVars == <<pdf_parse_engine, vlm_server_url, pipeline_initialized, vlm_initialized,
            current_engine, initialization_error, models, lock, tpc, frame, loads,
            attempts, firstRet, lastRet, retried>>

\* ------------------------------------- run_local.py module level (lines 26-38)
VARIABLES
    pdf_parser_func,  \* the module variable pdf_parser_func, FUNCTION_MAP["pdf"] ("None" before the import)
    run_local_log     \* what the module logged while choosing pdf_parser_func

scriptVars == <<pdf_parser_func, run_local_log>>

\* --------------------- one conversion task: parsers, file_utils.py, libreoffice_converter.py
VARIABLES
    call,      \* the function the caller of this run calls
    disk,      \* the file system: disk[p] is the content of the file or directory at path p
    soffice,   \* the host's LibreOffice: "absent", "broken" (soffice --version fails) or "installed"
    requests,  \* the URLs an HTTP GET was sent for
    probes,    \* the paths os.path.exists was asked about while classifying a reference
    spawned,   \* the converter processes started: their input path and output format
    tk         \* tk[t]: the arguments, locals, position and result of caller t's call

taskVars == <<call, disk, soffice, requests, probes, spawned, tk>>

\* ------------------------------------------- run_local.py: merge_json_files
VARIABLES
    merge_call,    \* the call: the files under root_folder in walk order, file_type, whether output_file can be written,
                   \* and whether the walk spells the output file's path as the argument output_file does
    merge_pc,      \* where the call is: its position, the next file of the walk, what it returned or raised
    merged_data,   \* the local list merged_data
    merge_log,     \* the records logged, in order
    output_file    \* what the call wrote to output_file ("none" when not written)

mergeVars == <<merge_call, merge_pc, merged_data, merge_log, output_file>>

\* ------------------------------ run_local.py: process_files_in_folder_submit
VARIABLES
    submit_call,  \* the call: the files found, max_workers, batch_size, and whether keyword arguments are passed
    submit_pc,    \* where the call is: its position, the items chunked_iterable has consumed, the exception raised
    futures,      \* futures[f]: the state of the executor's work item for file f
    ran           \* the files for which the body of process_file has run to completion

submitVars == <<submit_call, submit_pc, futures, ran>>

\* ------------------------------------------- routers: the upload endpoints
VARIABLES
    upload,   \* upload[r]: request r of an upload endpoint: the endpoint, the uploaded file's name, its position
    tmp       \* the temp directory: for each path, Absent or the inode there and whose bytes it holds

uploadVars == <<upload, tmp>>

ioVars == <<scriptVars, taskVars, mergeVars, submitVars, uploadVars>>

vars == <<batchVars, mmVars, ioVars>>

\* --------------------------------------------------------------- helpers
FileIds == 1..MaxFiles

\* The extensions the runs draw file names from: one the parser table knows once
\* lower-cased, one it does not know.
Exts == {"PDF", "txt"}

\* str.lower() on the extensions above and on the engine names below.
lower(s) == CASE s = "PDF" -> "pdf"
              [] s = "PIPELINE" -> "pipeline"
              [] OTHER -> s

\* FUNCTION_MAP: the keys of the parser table.
FUNCTION_MAP == {"pdf", "img", "doc", "ppt", "pptx", "html", "docx", "url", "xlsx", "epub"}

\* The keys of file_params in parameter_adapter.
file_params == {"pdf", "img", "docx", "doc", "ppt", "pptx", "html", "htm", "xlsx", "epub", "url"}

\* What handling one file can do: parameter_adapter and the parser return, or raise.
ReturnKinds == {"str", "nonstr"}
ExceptionKinds == {"ValueError", "FileNotFoundError", "Exception"}
\* asyncio.CancelledError derives from BaseException, not Exception.
BaseExceptionKinds == {"CancelledError"}
Outcomes == ReturnKinds \cup ExceptionKinds \cup BaseExceptionKinds

Min(a, b) == IF a < b THEN a ELSE b

RECURSIVE Flatten(_)
Flatten(ss) == IF ss = <<>> THEN <<>> ELSE Head(ss) \o Flatten(Tail(ss))

Elems(s) == {s[k] : k \in 1..Len(s)}

\* files[a : b] of Python, for 0 <= a.
Slice(s, a, b) == SubSeq(s, a + 1, Min(b, Len(s)))

Running == {f \in FileIds : task[f] = "running"}

None == [kind |-> "None"]
Pending == [kind |-> "pending"]

\* --------------------------------------------------------------- Init
BatchInit ==
    /\ entry \in {"process_files_in_folder", "process_files_batched", "chunked_iterable"}
    /\ \E n \in 0..MaxFiles : files = [k \in 1..n |-> k]
    /\ ext \in [FileIds -> Exts]
    /\ \A f \in FileIds : f > Len(files) => ext[f] = "PDF"
    /\ max_workers \in 0..MaxWorkers
    /\ batch_size \in -1..MaxBatch
    /\ entry = "chunked_iterable" =>
          /\ max_workers = 1
          /\ \A f \in FileIds : ext[f] = "PDF"
    /\ processor = FALSE
    /\ supported_files = <<>>
    /\ pc = "start"
    /\ i = 0
    /\ batch = <<>>
    /\ chunks = <<>>
    /\ semaphore = 0
    /\ task = [f \in FileIds |-> "none"]
    /\ raised = [f \in FileIds |-> "none"]
    /\ result = [f \in FileIds |-> "pending"]
    /\ log = [f \in FileIds |-> "none"]
    /\ gather_result = <<>>
    /\ ret = Pending
    /\ exc = "none"

\* ------------------------------------------------ process_files_in_folder
\* Lines 318-344: list the files, filter the supported ones, build the processor.
process_files_in_folder ==
    /\ entry = "process_files_in_folder"
    /\ pc = "start"
    /\ LET sup == SelectSeq(files, LAMBDA f : lower(ext[f]) \in FUNCTION_MAP) IN
       IF files = <<>> \/ sup = <<>>
       THEN /\ pc' = "returned"
            /\ ret' = None
            /\ UNCHANGED <<processor, supported_files, semaphore>>
       ELSE /\ supported_files' = sup
            /\ processor' = TRUE
            /\ semaphore' = max_workers
            /\ pc' = "batched"
            /\ UNCHANGED ret
    /\ UNCHANGED <<mmVars, ioVars, entry, files, ext, max_workers, batch_size, i, batch, chunks,
                   task, raised, result, log, gather_result, exc>>

\* Lines 227-233 and 247-249: a caller that builds ConcurrentProcessor(max_workers)
\* itself and hands process_files_batched any list of paths.
ConcurrentProcessor ==
    /\ entry = "process_files_batched"
    /\ pc = "start"
    /\ supported_files' = files
    /\ processor' = TRUE
    /\ semaphore' = max_workers
    /\ pc' = "batched"
    /\ UNCHANGED <<mmVars, ioVars, entry, files, ext, max_workers, batch_size, i, batch, chunks,
                   task, raised, result, log, gather_result, ret, exc>>

\* range(0, len(files), batch_size): "raise" for a zero step, else the values.
range_raises(step) == step = 0

\* Mutant: a range that stops before a last, shorter slice.
range_has_full_only(k, n, step) == step > 0 /\ k + step <= n

range_has(k, n, step) == step > 0 /\ k < n

\* Line 251, the first evaluation of range(); a ValueError leaves through
\* process_files_in_folder's "except Exception: raise".
process_files_batched ==
    /\ pc = "batched"
    /\ IF range_raises(batch_size)
       THEN /\ pc' = "raised"
            /\ exc' = "ValueError"
       ELSE /\ pc' = "loop"
            /\ UNCHANGED exc
    /\ i' = 0
    /\ UNCHANGED <<mmVars, ioVars, entry, files, ext, max_workers, batch_size, processor, supported_files, batch,
                   chunks, semaphore, task, raised, result, log, gather_result, ret>>

\* Lines 251-254 and 242-245: the next slice, one coroutine per file handed to gather;
\* when range() is exhausted the function, and then process_files_in_folder, return None.
process_files_concurrent ==
    /\ pc = "loop"
    /\ IF range_has(i, Len(supported_files), batch_size)
       THEN LET b == Slice(supported_files, i, i + batch_size) IN
            /\ batch' = b
            /\ chunks' = Append(chunks, b)
            /\ task' = [f \in FileIds |-> IF f \in Elems(b) THEN "created" ELSE task[f]]
            /\ pc' = "gather"
            /\ UNCHANGED ret
       ELSE /\ pc' = "returned"
            /\ ret' = None
            /\ UNCHANGED <<batch, chunks, task>>
    /\ UNCHANGED <<mmVars, ioVars, entry, files, ext, max_workers, batch_size, processor, supported_files, i,
                   semaphore, raised, result, log, gather_result, exc>>

\* Mutant: a semaphore that never blocks.
locked_never == FALSE

\* asyncio.Semaphore.locked(): no permit left.
locked == semaphore = 0

\* The files of the current batch that come before f in it.
Before(f) == {g \in Elems(batch) : g < f}

\* Line 237, "async with self.semaphore": take a permit, or wait for one. The
\* event loop runs the first step of the tasks gather created in creation order.
process_file_with_semaphore(f) ==
    /\ task[f] = "created"
    /\ \A g \in Before(f) : task[g] # "created"
    /\ IF locked
       THEN /\ task' = [task EXCEPT ![f] = "waiting"]
            /\ UNCHANGED semaphore
       ELSE /\ task' = [task EXCEPT ![f] = "running"]
            /\ semaphore' = semaphore - 1
    /\ UNCHANGED <<mmVars, ioVars, entry, files, ext, max_workers, batch_size, processor, supported_files, pc, i,
                   batch, chunks, raised, result, log, gather_result, ret, exc>>

\* Semaphore.release wakes the waiters in the order they queued (a deque).
semaphore_wake(f) ==
    /\ task[f] = "waiting"
    /\ \A g \in Before(f) : task[g] # "waiting"
    /\ ~locked
    /\ task' = [task EXCEPT ![f] = "running"]
    /\ semaphore' = semaphore - 1
    /\ UNCHANGED <<mmVars, ioVars, entry, files, ext, max_workers, batch_size, processor, supported_files, pc, i,
                   batch, chunks, raised, result, log, gather_result, ret, exc>>

\* Mutant: the handlers without the final "except Exception".
process_file_with_adapter_no_catch_all(o) ==
    CASE o = "str" -> [log |-> "info_success", exc |-> "none"]
      [] o = "nonstr" -> [log |-> "warning_result_type", exc |-> "none"]
      [] o = "ValueError" -> [log |-> "error_parameter", exc |-> "none"]
      [] o = "FileNotFoundError" -> [log |-> "error_file_not_found", exc |-> "none"]
      [] OTHER -> [log |-> "none", exc |-> o]

\* Lines 176-206: the try block and its handlers; what is logged and what leaves
\* the function.
process_file_with_adapter(o) ==
    CASE o = "str" -> [log |-> "info_success", exc |-> "none"]
      [] o = "nonstr" -> [log |-> "warning_result_type", exc |-> "none"]
      [] o = "ValueError" -> [log |-> "error_parameter", exc |-> "none"]
      [] o = "FileNotFoundError" -> [log |-> "error_file_not_found", exc |-> "none"]
      [] o \in ExceptionKinds \ {"ValueError", "FileNotFoundError"} ->
            [log |-> "error_processing", exc |-> "none"]
      [] OTHER -> [log |-> "none", exc |-> o]

\* Mutant: a permit given back after a body that returned only.
semaphore_release_on_return(o) == IF o \in ReturnKinds THEN semaphore + 1 ELSE semaphore

\* Lines 237-238: "async with self.semaphore" gives the permit back when the
\* body is left, by return or by any exception.
semaphore_release(o) == semaphore + 1

\* Lines 209-221 with 235-238: the body of the task, then the permit goes back.
process_file(f, o) ==
    /\ task[f] = "running"
    /\ LET r == IF lower(ext[f]) \in FUNCTION_MAP
                THEN process_file_with_adapter(o)
                ELSE [log |-> "warning_unsupported", exc |-> "none"] IN
       /\ raised' = [raised EXCEPT ![f] = IF lower(ext[f]) \in FUNCTION_MAP THEN o ELSE "skipped"]
       /\ log' = [log EXCEPT ![f] = r.log]
       /\ result' = [result EXCEPT ![f] = IF r.exc = "none" THEN "None" ELSE r.exc]
    /\ task' = [task EXCEPT ![f] = "done"]
    /\ semaphore' = semaphore_release(o)
    /\ UNCHANGED <<mmVars, ioVars, entry, files, ext, max_workers, batch_size, processor, supported_files, pc, i,
                   batch, chunks, gather_result, ret, exc>>

\* Mutant: gather with its default, return_exceptions=False.
return_exceptions_default == FALSE

\* Line 245: asyncio.gather(*tasks, return_exceptions=True).
return_exceptions == TRUE

\* The children of the running gather that ended with an exception.
Failed == {f \in Elems(batch) : task[f] = "done" /\ result[f] # "None"}

\* Mutant: a wait that ends with the first child that is done.
all_done_first_completed == \E f \in Elems(batch) : task[f] = "done"

\* Line 245: gather waits for every awaitable it was given.
all_done == \A f \in Elems(batch) : task[f] = "done"

\* gather ends when every child is done, or, without return_exceptions, as soon
\* as one child ends with an exception, which it raises; the exception passes
\* process_files_batched and process_files_in_folder ("except Exception: raise",
\* or uncaught) to the caller.
gather ==
    /\ pc = "gather"
    /\ IF ~return_exceptions /\ Failed # {}
       THEN /\ \E f \in Failed : exc' = result[f]
            /\ pc' = "raised"
            /\ UNCHANGED <<gather_result, i>>
       ELSE /\ all_done
            /\ gather_result' = [k \in 1..Len(batch) |-> result[batch[k]]]
            /\ i' = i + batch_size
            /\ pc' = "loop"
            /\ UNCHANGED exc
    /\ UNCHANGED <<mmVars, ioVars, entry, files, ext, max_workers, batch_size, processor, supported_files, batch,
                   chunks, semaphore, task, raised, result, log, ret>>

\* ------------------------------------------------------- chunked_iterable
\* islice(it, size) refuses a negative stop.
islice_raises(size) == size < 0

\* Line 268: it = iter(iterable).
chunked_iterable ==
    /\ entry = "chunked_iterable"
    /\ pc = "start"
    /\ i' = 0
    /\ pc' = "iter"
    /\ UNCHANGED <<mmVars, ioVars, entry, files, ext, max_workers, batch_size, processor, supported_files, batch,
                   chunks, semaphore, task, raised, result, log, gather_result, ret, exc>>

\* Lines 269-270: one turn of "while chunk := list(islice(it, size)): yield chunk".
chunked_iterable_next ==
    /\ pc = "iter"
    /\ IF islice_raises(batch_size)
       THEN /\ pc' = "raised"
            /\ exc' = "ValueError"
            /\ UNCHANGED <<i, batch, chunks>>
       ELSE LET chunk == Slice(files, i, i + batch_size) IN
            /\ batch' = chunk
            /\ i' = i + Len(chunk)
            /\ UNCHANGED exc
            /\ IF chunk = <<>>
               THEN pc' = "exhausted" /\ UNCHANGED chunks
               ELSE pc' = "iter" /\ chunks' = Append(chunks, chunk)
    /\ UNCHANGED <<mmVars, ioVars, entry, files, ext, max_workers, batch_size, processor, supported_files,
                   semaphore, task, raised, result, log, gather_result, ret>>


\* ============================================================ ModelManager
Threads == 1..NThreads

\* Values of settings.pdf_parse_engine: the names initialize_models knows, one in
\* upper case, one it does not know.
EngineSettings == {"pipeline", "pipeline-engine", "vlm", "vlm-sglang-engine",
                   "vlm-sglang-client", "PIPELINE", "mineru"}

\* Lines 46 and 48: the two lists initialize_models dispatches on.
PipelineEngines == {"pipeline", "pipeline-engine"}
VlmEngines == {"vlm", "vlm-sglang-engine", "vlm-sglang-client"}

ServerUrls == {"", "http://vlm"}

NoFrame == [engine |-> "None", success |-> FALSE, vlm |-> "none", pipeline |-> "none"]

NoRet == [thread |-> 0, ret |-> FALSE, engine |-> "None", error |-> "None",
          early |-> "none", configured |-> "None", vlm |-> "none", pipeline |-> "none"]

NoLoads == [pipeline |-> 0, vlm |-> 0, ok |-> 0]

\* Lines 14-20 (__init__) and 186-202: the one instance, built at import.
ModelManagerInit ==
    /\ pipeline_initialized = FALSE
    /\ vlm_initialized = FALSE
    /\ current_engine = "None"
    /\ initialization_error = "None"
    /\ models = {}
    /\ lock = 0
    /\ tpc = [t \in Threads |-> "idle"]
    /\ frame = [t \in Threads |-> NoFrame]
    /\ loads = NoLoads
    /\ attempts = 0
    /\ firstRet = NoRet
    /\ lastRet = NoRet
    /\ retried = FALSE

mmState == <<pipeline_initialized, vlm_initialized, current_engine,
             initialization_error, models>>

\* settings is a module-level object: the configuration may change between any
\* two steps.
settings ==
    /\ pdf_parse_engine' \in EngineSettings
    /\ vlm_server_url' \in ServerUrls
    /\ <<pdf_parse_engine', vlm_server_url'>> # <<pdf_parse_engine, vlm_server_url>>
    /\ UNCHANGED <<batchVars, ioVars, pipeline_initialized, vlm_initialized, current_engine,
                   initialization_error, models, lock, tpc, frame, loads, attempts,
                   firstRet, lastRet, retried>>

\* A thread calls initialize_models().
call_initialize_models(t) ==
    /\ tpc[t] = "idle"
    /\ tpc' = [tpc EXCEPT ![t] = "with_lock"]
    /\ UNCHANGED <<batchVars, ioVars, pdf_parse_engine, vlm_server_url, mmState, lock, frame,
                   loads, attempts, firstRet, lastRet, retried>>

\* Mutant: a lock that is always granted.
lock_granted_always(t) == TRUE

\* threading.RLock: free, or owned by the caller.
lock_free(t) == lock \in {0, t}

\* Line 29, "with self._lock" of initialize_models.
with_lock(t) ==
    /\ tpc[t] = "with_lock"
    /\ lock_free(t)
    /\ lock' = t
    /\ tpc' = [tpc EXCEPT ![t] = "initialize_models"]
    /\ UNCHANGED <<batchVars, ioVars, pdf_parse_engine, vlm_server_url, mmState, frame,
                   loads, attempts, firstRet, lastRet, retried>>

\* initialize_models returns r: the lock is released and the caller sees r and,
\* through get_current_engine() / get_initialization_error(), the state it left.
Return(t, r, early, error) ==
    LET rec == [thread |-> t, ret |-> r, engine |-> current_engine, error |-> error,
                early |-> early, configured |-> frame[t].engine,
                vlm |-> frame[t].vlm, pipeline |-> frame[t].pipeline] IN
    /\ lastRet' = rec
    /\ firstRet' = IF firstRet.thread = 0 THEN rec ELSE firstRet
    /\ lock' = IF lock = t THEN 0 ELSE lock
    /\ tpc' = [tpc EXCEPT ![t] = "idle"]
    /\ frame' = [frame EXCEPT ![t] = NoFrame]

\* Mutant: no check of a recorded error.
previous_failure_ignored == FALSE

\* Line 30: "if self._initialization_error".
previous_failure == initialization_error # "None"

\* Mutant: no check of current_engine.
already_initialized_ignored == FALSE

\* Line 36: "if self.current_engine".
already_initialized == current_engine # "None"

\* Mutant: an engine name that is not known fails the initialization.
dispatch_unknown_fails(engine) ==
    IF engine \in PipelineEngines THEN "_initialize_pipeline_model"
    ELSE IF engine \in VlmEngines THEN "_initialize_vlm_model"
    ELSE "return"

\* Lines 46-54: the method initialize_models goes on with for an engine name; a
\* name in neither list is logged as unknown and handled as "pipeline".
dispatch(engine) ==
    IF engine \in PipelineEngines THEN "_initialize_pipeline_model"
    ELSE IF engine \in VlmEngines THEN "_initialize_vlm_model"
    ELSE "_initialize_pipeline_model"

\* Lines 30-54: the two early returns, then the engine is read and dispatched on.
initialize_models(t) ==
    /\ tpc[t] = "initialize_models"
    /\ IF previous_failure
       THEN /\ Return(t, FALSE, "error", initialization_error)
            /\ UNCHANGED attempts
       ELSE IF already_initialized
       THEN /\ Return(t, TRUE, "hot", initialization_error)
            /\ UNCHANGED attempts
       ELSE LET engine == lower(pdf_parse_engine) IN
            /\ frame' = [frame EXCEPT ![t].engine = engine]
            /\ tpc' = [tpc EXCEPT ![t] = dispatch(engine)]
            /\ attempts' = attempts + 1
            /\ UNCHANGED <<lock, firstRet, lastRet>>
    /\ UNCHANGED <<batchVars, ioVars, pdf_parse_engine, vlm_server_url, mmState, loads, retried>>

\* Lines 87-88: nothing to do when the pipeline model is loaded.
_initialize_pipeline_model(t) ==
    /\ tpc[t] = "_initialize_pipeline_model"
    /\ IF pipeline_initialized
       THEN /\ frame' = [frame EXCEPT ![t].success = TRUE]
            /\ tpc' = [tpc EXCEPT ![t] = "return"]
       ELSE /\ tpc' = [tpc EXCEPT ![t] = "custom_model_init"]
            /\ UNCHANGED frame
    /\ UNCHANGED <<batchVars, ioVars, pdf_parse_engine, vlm_server_url, mmState, lock, loads,
                   attempts, firstRet, lastRet, retried>>

\* Lines 90-94 and 99-101: the import and custom_model_init() load the model or
\* raise; "except Exception" returns False.
custom_model_init(t) ==
    /\ tpc[t] = "custom_model_init"
    /\ \E ok \in BOOLEAN :
          IF ok
          THEN /\ loads' = [loads EXCEPT !.pipeline = @ + 1, !.ok = @ + 1]
               /\ frame' = [frame EXCEPT ![t].pipeline = "ok"]
               /\ tpc' = [tpc EXCEPT ![t] = "pipeline_initialized"]
          ELSE /\ loads' = [loads EXCEPT !.pipeline = @ + 1]
               /\ frame' = [frame EXCEPT ![t].pipeline = "raise", ![t].success = FALSE]
               /\ tpc' = [tpc EXCEPT ![t] = "return"]
    /\ UNCHANGED <<batchVars, ioVars, pdf_parse_engine, vlm_server_url, mmState, lock,
                   attempts, firstRet, lastRet, retried>>

\* Line 95.
set_pipeline_initialized(t) ==
    /\ tpc[t] = "pipeline_initialized"
    /\ pipeline_initialized' = TRUE
    /\ tpc' = [tpc EXCEPT ![t] = "current_engine_pipeline"]
    /\ UNCHANGED <<batchVars, ioVars, pdf_parse_engine, vlm_server_url, vlm_initialized,
                   current_engine, initialization_error, models, lock, frame, loads,
                   attempts, firstRet, lastRet, retried>>

\* Lines 96-98.
set_current_engine_pipeline(t) ==
    /\ tpc[t] = "current_engine_pipeline"
    /\ current_engine' = "pipeline"
    /\ frame' = [frame EXCEPT ![t].success = TRUE]
    /\ tpc' = [tpc EXCEPT ![t] = "return"]
    /\ UNCHANGED <<batchVars, ioVars, pdf_parse_engine, vlm_server_url, pipeline_initialized,
                   vlm_initialized, initialization_error, models, lock, loads,
                   attempts, firstRet, lastRet, retried>>

\* Lines 75-83.
_validate_vlm_config(engine) ==
    ~(engine = "vlm-sglang-client" /\ vlm_server_url = "")

\* Lines 105-109.
_initialize_vlm_model(t) ==
    /\ tpc[t] = "_initialize_vlm_model"
    /\ IF vlm_initialized
       THEN /\ frame' = [frame EXCEPT ![t].success = TRUE]
            /\ tpc' = [tpc EXCEPT ![t] = "return"]
       ELSE IF ~_validate_vlm_config(frame[t].engine)
       THEN /\ frame' = [frame EXCEPT ![t].success = FALSE]
            /\ tpc' = [tpc EXCEPT ![t] = "return"]
       ELSE /\ tpc' = [tpc EXCEPT ![t] = "get_model"]
            /\ UNCHANGED frame
    /\ UNCHANGED <<batchVars, ioVars, pdf_parse_engine, vlm_server_url, mmState, lock, loads,
                   attempts, firstRet, lastRet, retried>>

\* Mutant: a failed VLM load returns False, without the fallback.
vlm_except_return_false == "return"

\* Lines 140-143: "except Exception: ... return self._initialize_pipeline_model()".
vlm_except == "_initialize_pipeline_model"

\* Lines 111-130: the import and ModelSingleton().get_model(...) load the model or
\* raise.
get_model(t) ==
    /\ tpc[t] = "get_model"
    /\ \E ok \in BOOLEAN :
          IF ok
          THEN /\ loads' = [loads EXCEPT !.vlm = @ + 1, !.ok = @ + 1]
               /\ frame' = [frame EXCEPT ![t].vlm = "ok"]
               /\ tpc' = [tpc EXCEPT ![t] = "models"]
          ELSE /\ loads' = [loads EXCEPT !.vlm = @ + 1]
               /\ frame' = [frame EXCEPT ![t].vlm = "raise"]
               /\ tpc' = [tpc EXCEPT ![t] = vlm_except]
    /\ UNCHANGED <<batchVars, ioVars, pdf_parse_engine, vlm_server_url, mmState, lock,
                   attempts, firstRet, lastRet, retried>>

\* Line 133.
store_model(t) ==
    /\ tpc[t] = "models"
    /\ models' = models \cup {frame[t].engine}
    /\ tpc' = [tpc EXCEPT ![t] = "vlm_initialized"]
    /\ UNCHANGED <<batchVars, ioVars, pdf_parse_engine, vlm_server_url, pipeline_initialized,
                   vlm_initialized, current_engine, initialization_error, lock, frame,
                   loads, attempts, firstRet, lastRet, retried>>

\* Line 135.
set_vlm_initialized(t) ==
    /\ tpc[t] = "vlm_initialized"
    /\ vlm_initialized' = TRUE
    /\ tpc' = [tpc EXCEPT ![t] = "current_engine_vlm"]
    /\ UNCHANGED <<batchVars, ioVars, pdf_parse_engine, vlm_server_url, pipeline_initialized,
                   current_engine, initialization_error, models, lock, frame, loads,
                   attempts, firstRet, lastRet, retried>>

\* Lines 136-138.
set_current_engine_vlm(t) ==
    /\ tpc[t] = "current_engine_vlm"
    /\ current_engine' = frame[t].engine
    /\ frame' = [frame EXCEPT ![t].success = TRUE]
    /\ tpc' = [tpc EXCEPT ![t] = "return"]
    /\ UNCHANGED <<batchVars, ioVars, pdf_parse_engine, vlm_server_url, pipeline_initialized,
                   vlm_initialized, initialization_error, models, lock, loads,
                   attempts, firstRet, lastRet, retried>>

\* Line 57: f"Failed to initialize {engine} engine".
failed_to_initialize(engine) ==
    CASE engine = "pipeline" -> "Failed to initialize pipeline engine"
      [] engine = "pipeline-engine" -> "Failed to initialize pipeline-engine engine"
      [] engine = "vlm" -> "Failed to initialize vlm engine"
      [] engine = "vlm-sglang-engine" -> "Failed to initialize vlm-sglang-engine engine"
      [] engine = "vlm-sglang-client" -> "Failed to initialize vlm-sglang-client engine"
      [] engine = "mineru" -> "Failed to initialize mineru engine"

\* Lines 56-60: record the failure, or return True. (The handlers of lines 62-73
\* cannot be entered: both _initialize_* methods catch Exception themselves.)
initialize_models_return(t) ==
    /\ tpc[t] = "return"
    /\ IF ~frame[t].success
       THEN LET e == failed_to_initialize(frame[t].engine) IN
            /\ initialization_error' = e
            /\ Return(t, FALSE, "none", e)
       ELSE /\ Return(t, TRUE, "none", initialization_error)
            /\ UNCHANGED initialization_error
    /\ UNCHANGED <<batchVars, ioVars, pdf_parse_engine, vlm_server_url, pipeline_initialized,
                   vlm_initialized, current_engine, models, loads, attempts, retried>>

\* Mutant: is_initialized() that looks at the recorded error only.
is_initialized_error_only(engine, error) == error = "None"

\* Lines 155-157: is_initialized(), for the values of current_engine and
\* _initialization_error it reads.
is_initialized(engine, error) == engine # "None" /\ error = "None"

\* A thread calls reset() and passes line 165, "with self._lock": what was
\* returned before belongs to the past.
reset(t) ==
    /\ tpc[t] = "idle"
    /\ lock_free(t)
    /\ lock' = t
    /\ tpc' = [tpc EXCEPT ![t] = "reset_pipeline_initialized"]
    /\ loads' = NoLoads
    /\ attempts' = 0
    /\ firstRet' = NoRet
    /\ lastRet' = NoRet
    /\ retried' = (initialization_error # "None")
    /\ UNCHANGED <<batchVars, ioVars, pdf_parse_engine, vlm_server_url, mmState, frame>>

\* Mutant: reset() that leaves pipeline_initialized as it is.
reset_pipeline_initialized_kept == pipeline_initialized

\* Line 166: the value reset() gives pipeline_initialized.
reset_pipeline_initialized_value == FALSE

\* Line 166.
reset_pipeline_initialized(t) ==
    /\ tpc[t] = "reset_pipeline_initialized"
    /\ pipeline_initialized' = reset_pipeline_initialized_value
    /\ tpc' = [tpc EXCEPT ![t] = "reset_vlm_initialized"]
    /\ UNCHANGED <<batchVars, ioVars, pdf_parse_engine, vlm_server_url, vlm_initialized,
                   current_engine, initialization_error, models, lock, frame, loads,
                   attempts, firstRet, lastRet, retried>>

\* Line 167.
reset_vlm_initialized(t) ==
    /\ tpc[t] = "reset_vlm_initialized"
    /\ vlm_initialized' = FALSE
    /\ tpc' = [tpc EXCEPT ![t] = "reset_current_engine"]
    /\ UNCHANGED <<batchVars, ioVars, pdf_parse_engine, vlm_server_url, pipeline_initialized,
                   current_engine, initialization_error, models, lock, frame, loads,
                   attempts, firstRet, lastRet, retried>>

\* Line 168.
reset_current_engine(t) ==
    /\ tpc[t] = "reset_current_engine"
    /\ current_engine' = "None"
    /\ tpc' = [tpc EXCEPT ![t] = "reset_initialization_error"]
    /\ UNCHANGED <<batchVars, ioVars, pdf_parse_engine, vlm_server_url, pipeline_initialized,
                   vlm_initialized, initialization_error, models, lock, frame, loads,
                   attempts, firstRet, lastRet, retried>>

\* Line 169.
reset_initialization_error(t) ==
    /\ tpc[t] = "reset_initialization_error"
    /\ initialization_error' = "None"
    /\ tpc' = [tpc EXCEPT ![t] = "reset_models"]
    /\ UNCHANGED <<batchVars, ioVars, pdf_parse_engine, vlm_server_url, pipeline_initialized,
                   vlm_initialized, current_engine, models, lock, frame, loads,
                   attempts, firstRet, lastRet, retried>>

\* Line 170, then the lock is released.
reset_models(t) ==
    /\ tpc[t] = "reset_models"
    /\ models' = {}
    /\ lock' = IF lock = t THEN 0 ELSE lock
    /\ tpc' = [tpc EXCEPT ![t] = "idle"]
    /\ UNCHANGED <<batchVars, ioVars, pdf_parse_engine, vlm_server_url, pipeline_initialized,
                   vlm_initialized, current_engine, initialization_error, frame, loads,
                   attempts, firstRet, lastRet, retried>>

\* ======================================================= paths and the disk
\* A string that names a resource, by the parts urlparse and os.path split it in:
\* "https://example.com/a/b/report.pdf" is Str("https", "example.com", "/a/b", "report.pdf"),
\* "docs/report.doc" is Str("", "", "docs", "report.doc"), "" is Str("", "", "", "").
Str(scheme, netloc, dir, name) ==
    [scheme |-> scheme, netloc |-> netloc, dir |-> dir, name |-> name]

\* The empty string; also stands for an argument left at None.
Empty == Str("", "", "", "")

\* os.path.join(dir, name) for a directory path dir.
os_path_join(d, name) ==
    Str("", "", IF d.name = "" THEN d.dir
                ELSE IF d.dir = "/" THEN "/" \o d.name
                ELSE d.dir \o "/" \o d.name, name)

\* The directory "/tmp" as a path.
Dir(d) == Str("", "", d, "")

\* The references and paths of the runs.
LocalPdf == Str("", "", "/tmp/already", "local.pdf")
RelDoc == Str("", "", "docs", "report.doc")
UrlPdf == Str("https", "example.com", "/a/b", "report.pdf")
MirrorPdf == Str("https", "mirror.org", "/", "report.pdf")
UrlRoot == Str("https", "example.com", "/", "")
UrlDoc == Str("http", "example.com", "/old", "report.doc")
FtpPdf == Str("ftp", "host", "/x", "report.pdf")
DrivePath == Str("c", "", "/docs", "report.doc")
FileUrl == Str("file", "", "/tmp", "local.pdf")
LocalHtm == Str("", "", "/tmp", "page.htm")
LocalEpub == Str("", "", "/tmp", "book.epub")
OutDir == Dir("/out")

\* os.path.isabs.
os_path_isabs(p) == p.scheme = "" /\ p.dir \notin {"", "docs"}

\* os.path.abspath: a relative path is taken from the working directory "/cwd".
os_path_abspath(p) ==
    IF os_path_isabs(p) \/ p = Empty THEN p
    ELSE [p EXCEPT !.dir = "/cwd/" \o p.dir]

\* os.path.dirname of a file path.
os_path_dirname(p) == Dir(p.dir)

\* Path(name).stem and Path(name).suffix.lower()[1:] of the file names of the runs.
stem(name) ==
    CASE name \in {"report.doc", "report.pdf", "report.docx", "report.pptx"} -> "report"
      [] name \in {"local.pdf", "local.docx"} -> "local"
      [] name = "final.docx" -> "final"
      [] name = "page.htm" -> "page"
      [] name = "book.epub" -> "book"
      [] OTHER -> name

suffix(name) ==
    CASE name \in {"report.doc"} -> "doc"
      [] name \in {"report.pdf", "local.pdf"} -> "pdf"
      [] name \in {"report.docx", "local.docx", "final.docx"} -> "docx"
      [] name = "report.pptx" -> "pptx"
      [] name = "page.htm" -> "htm"
      [] name = "book.epub" -> "epub"
      [] OTHER -> ""

\* What a file holds: the chunks written to it, each marked with its writer.
Chunk(w, t) == [w |-> w, t |-> t]
Old == <<Chunk("old", 0)>>
Directory(t) == <<Chunk("dir", t)>>

\* os.path.exists (the disk is keyed by absolute paths).
os_path_exists(p) == os_path_abspath(p) \in DOMAIN disk

\* The disk with p written / without p.
Written(d, p, c) == (os_path_abspath(p) :> c) @@ d
Removed(d, ps) == [q \in DOMAIN d \ {os_path_abspath(p) : p \in ps} |-> d[q]]

\* ================================================ one conversion task: state
Callers == 1..MaxCallers

\* The functions a run calls: the script's process_file, or one of the functions
\* under it called by itself.
Calls == {"process_file", "process_resource_path", "download_file_from_url",
          "convert_by_libreoffice"}

\* A caller that makes no call.
NoTask ==
    [pc |-> "none", status |-> "none",
     resource_path |-> Empty, output_dir |-> Empty, save_parsed_content |-> FALSE,
     save_middle_content |-> FALSE,
     parser_output_dir |-> Empty, file_ext |-> "", parser |-> "none", input_type |-> "none",
     url |-> Empty, dl_path |-> Empty, chunks |-> 0, local_path |-> Empty,
     input_path |-> Empty, output_format |-> "", output_path |-> Empty,
     rm_original |-> FALSE, installed |-> "none", returncode |-> "none",
     converted |-> Empty, temp_dir |-> Empty, parsed |-> "none",
     ret |-> Empty, err |-> "none", raised |-> "none", cause |-> "none", log |-> "none"]

\* The call returns v to its caller.
Returned(r, v) == [r EXCEPT !.pc = "done", !.status = "returned", !.ret = v]

\* The call raises e to its caller.
Raised(r, e, cause) ==
    [r EXCEPT !.pc = "done", !.status = "raised", !.err = e, !.raised = e, !.cause = cause]

\* Lines 176-206 of run_local.py around the parser: its result or exception goes
\* through the handlers of process_file_with_adapter, which returns None.
Adapter(r, o, cause) ==
    LET h == process_file_with_adapter(o) IN
    [r EXCEPT !.pc = "done",
              !.status = IF h.exc = "none" THEN "returned" ELSE "raised",
              !.err = h.exc, !.raised = o, !.cause = cause, !.log = h.log]

\* An exception e leaves the parser function (or a function called by itself).
Raise(r, e, cause) ==
    IF call = "process_file" THEN Adapter(r, e, cause) ELSE Raised(r, e, cause)

\* ================================================================ file_utils
\* urlparse: the scheme, the network location and the path of a string.
urlparse(s) == [scheme |-> s.scheme, netloc |-> s.netloc,
                path |-> [dir |-> s.dir, name |-> s.name]]

\* Lines 189-203: all([result.scheme, result.netloc]).
is_valid_url(url_string) ==
    urlparse(url_string).scheme # "" /\ urlparse(url_string).netloc # ""

\* Lines 206-225: the last path segment if it has a dot, else "".
extract_filename_from_url(url) ==
    LET path == urlparse(url).path IN
    IF path # [dir |-> "", name |-> ""] /\ path # [dir |-> "/", name |-> ""]
    THEN IF path.name # "" /\ suffix(path.name) # "" THEN path.name ELSE ""
    ELSE ""

\* Mutant: a relative path that is not on the disk is taken for a URL.
is_url_or_file_path_missing_is_url(resource_path) ==
    IF resource_path = Empty THEN [type |-> "local", probe |-> FALSE]
    ELSE IF urlparse(resource_path).scheme \in {"http", "https"}
    THEN [type |-> "url", probe |-> FALSE]
    ELSE IF urlparse(resource_path).scheme = "file"
    THEN [type |-> "local", probe |-> FALSE]
    ELSE IF urlparse(resource_path).scheme # ""
    THEN [type |-> "url", probe |-> FALSE]
    ELSE IF os_path_isabs(resource_path)
    THEN [type |-> "local", probe |-> FALSE]
    ELSE [type |-> IF os_path_exists(resource_path) THEN "local" ELSE "url", probe |-> TRUE]

\* Lines 228-258: "url" or "local", and whether os.path.exists was asked (line
\* 255, reached by a reference with no scheme that is not absolute).
is_url_or_file_path(resource_path) ==
    IF resource_path = Empty THEN [type |-> "local", probe |-> FALSE]
    ELSE IF urlparse(resource_path).scheme \in {"http", "https"}
    THEN [type |-> "url", probe |-> FALSE]
    ELSE IF urlparse(resource_path).scheme = "file"
    THEN [type |-> "local", probe |-> FALSE]
    ELSE IF urlparse(resource_path).scheme # ""
    THEN [type |-> "url", probe |-> FALSE]
    ELSE [type |-> "local", probe |-> ~os_path_isabs(resource_path)]

\* process_resource_path returns v: to the caller of the run, or to the parser
\* that called it (pdf_parser.py line 74, doc_parser.py line 29), which goes on.
ResolveReturn(r, v) ==
    IF call = "process_resource_path" THEN Returned(r, v)
    ELSE IF r.file_ext = "doc"
    THEN [r EXCEPT !.local_path = v, !.pc = "convert_by_libreoffice",
                   !.input_path = v, !.output_format = "docx",
                   !.output_path = Empty, !.rm_original = FALSE]
    ELSE IF r.file_ext = "epub"
    THEN [r EXCEPT !.local_path = v, !.pc = "epub_parse_main"]
    ELSE [r EXCEPT !.local_path = v, !.pc = "read_pdf"]

\* download_file_from_url returns v: to the caller of the run, or to
\* process_resource_path (lines 280-282), which returns it.
DownloadReturn(r, v) ==
    IF call = "download_file_from_url" THEN Returned(r, v) ELSE ResolveReturn(r, v)

\* Lines 275-288: classify the reference; a "url" is downloaded, anything else is
\* returned as it is.
process_resource_path(t) ==
    /\ tk[t].pc = "process_resource_path"
    /\ LET r == tk[t]
           c == is_url_or_file_path(r.resource_path) IN
       /\ probes' = IF c.probe THEN probes \cup {r.resource_path} ELSE probes
       /\ tk' = [tk EXCEPT ![t] =
                    IF c.type = "url"
                    THEN [r EXCEPT !.input_type = "url", !.pc = "download_file_from_url",
                                   !.url = r.resource_path]
                    ELSE ResolveReturn([r EXCEPT !.input_type = "local"], r.resource_path)]
    /\ UNCHANGED <<batchVars, mmVars, scriptVars, mergeVars, submitVars, uploadVars, call, disk, soffice, requests, spawned>>

\* Lines 156-166: refuse a string without scheme or host, then name the file and
\* the place it goes to: output_path, or the directory of temporary files.
download_file_from_url(t) ==
    /\ tk[t].pc = "download_file_from_url"
    /\ LET r == tk[t]
           filename == IF extract_filename_from_url(r.url) # ""
                       THEN extract_filename_from_url(r.url) ELSE "downloaded_file"
           output_path == IF r.output_dir # Empty
                          THEN os_path_join(r.output_dir, filename)
                          ELSE os_path_join(Dir("/tmp"), filename) IN
       tk' = [tk EXCEPT ![t] =
                IF ~is_valid_url(r.url) THEN Raise(r, "ValueError", "invalid_url")
                ELSE [r EXCEPT !.dl_path = output_path, !.pc = "session_get"]]
    /\ UNCHANGED <<batchVars, mmVars, scriptVars, mergeVars, submitVars, uploadVars, call, disk, soffice, requests, probes, spawned>>

\* Lines 173-175: the GET and raise_for_status. The HTTP client speaks http and
\* https only and refuses any other scheme before it connects.
session_get(t) ==
    /\ tk[t].pc = "session_get"
    /\ LET r == tk[t] IN
       IF urlparse(r.url).scheme \notin {"http", "https"}
       THEN /\ tk' = [tk EXCEPT ![t] = Raise(r, "Exception", "client_error")]
            /\ UNCHANGED requests
       ELSE /\ requests' = requests \cup {r.url}
            /\ \E ok \in BOOLEAN :
                  tk' = [tk EXCEPT ![t] =
                           IF ok THEN [r EXCEPT !.pc = "aiofiles_open"]
                           ELSE Raise(r, "Exception", "download_failed")]
    /\ UNCHANGED <<batchVars, mmVars, scriptVars, mergeVars, submitVars, uploadVars, call, disk, soffice, probes, spawned>>

\* Line 177: aiofiles.open(output_path, "wb") creates the file, or empties the one
\* that is there.
aiofiles_open(t) ==
    /\ tk[t].pc = "aiofiles_open"
    /\ disk' = Written(disk, tk[t].dl_path, <<>>)
    /\ tk' = [tk EXCEPT ![t].pc = "iter_chunked", ![t].chunks = 0]
    /\ UNCHANGED <<batchVars, mmVars, scriptVars, mergeVars, submitVars, uploadVars, call, soffice, requests, probes, spawned>>

\* f.write(chunk) of a caller that has written n chunks through its own handle:
\* the chunk goes to position n + 1 of the file, over what another handle wrote
\* there, and a gap before it reads as zero bytes.
f_write(have, n, c) ==
    [j \in 1..(IF Len(have) > n + 1 THEN Len(have) ELSE n + 1) |->
        IF j = n + 1 THEN c
        ELSE IF j <= Len(have) THEN have[j] ELSE Chunk("zero", 0)]

\* Lines 178-182: the next chunk is written, or the body ends and the path is
\* returned, or the transfer fails and what was written stays.
iter_chunked(t) ==
    /\ tk[t].pc = "iter_chunked"
    /\ LET r == tk[t]
           have == IF os_path_exists(r.dl_path) THEN disk[os_path_abspath(r.dl_path)] ELSE <<>> IN
       \E o \in {"chunk", "end", "raise"} :
          CASE o = "chunk" ->
                 /\ r.chunks < MaxChunks
                 /\ disk' = Written(disk, r.dl_path, f_write(have, r.chunks, Chunk("download", t)))
                 /\ tk' = [tk EXCEPT ![t].chunks = r.chunks + 1]
            [] o = "end" ->
                 /\ tk' = [tk EXCEPT ![t] = DownloadReturn(r, r.dl_path)]
                 /\ UNCHANGED disk
            [] o = "raise" ->
                 /\ tk' = [tk EXCEPT ![t] = Raise(r, "Exception", "download_failed")]
                 /\ UNCHANGED disk
    /\ UNCHANGED <<batchVars, mmVars, scriptVars, mergeVars, submitVars, uploadVars, call, soffice, requests, probes, spawned>>

\* ==================================================== libreoffice_converter
\* Lines 11-27: subprocess.run(["soffice", "--version"], check=True). A failing
\* command is a CalledProcessError, which is caught; a command that is not there
\* is a FileNotFoundError, which is not.
check_libreoffice_installed ==
    CASE soffice = "installed" -> "True"
      [] soffice = "broken" -> "False"
      [] soffice = "absent" -> "FileNotFoundError"

\* convert_by_libreoffice returns v: to the caller of the run, or to
\* doc_parse_main (doc_parser.py lines 34-40), which hands it to docx_parse_main.
ConvertReturn(r, v) ==
    IF call = "convert_by_libreoffice" THEN Returned(r, v)
    ELSE [r EXCEPT !.pc = "docx_parse_main", !.converted = v]

\* Lines 52-56.
convert_by_libreoffice(t) ==
    /\ tk[t].pc = "convert_by_libreoffice"
    /\ LET r == [tk[t] EXCEPT !.installed = check_libreoffice_installed] IN
       tk' = [tk EXCEPT ![t] =
                CASE r.installed = "True" -> [r EXCEPT !.pc = "input_path"]
                  [] r.installed = "False" -> Raise(r, "FileNotFoundError", "not_installed")
                  [] OTHER -> Raise(r, "FileNotFoundError", "soffice_not_found")]
    /\ UNCHANGED <<batchVars, mmVars, scriptVars, mergeVars, submitVars, uploadVars, call, disk, soffice, requests, probes, spawned>>

\* Lines 58-87: the input must exist, the formats must be on the lists; the
\* output path, when not given, is the input's with the new extension.
input_path(t) ==
    /\ tk[t].pc = "input_path"
    /\ LET r == [tk[t] EXCEPT !.input_path = os_path_abspath(@)]
           input_format == suffix(r.input_path.name)
           output_path == IF r.output_path = Empty
                          THEN os_path_join(os_path_dirname(r.input_path),
                                            stem(r.input_path.name) \o "." \o r.output_format)
                          ELSE r.output_path IN
       tk' = [tk EXCEPT ![t] =
                IF ~os_path_exists(r.input_path)
                THEN Raise(r, "FileNotFoundError", "input_not_found")
                ELSE IF input_format \notin {"doc", "docx", "ppt", "pptx"}
                THEN Raise(r, "ValueError", "unsupported_input_format")
                ELSE IF r.output_format \notin {"docx", "pptx"}
                THEN Raise(r, "ValueError", "unsupported_output_format")
                ELSE [r EXCEPT !.output_path = output_path, !.pc = "create_subprocess_exec"]]
    /\ UNCHANGED <<batchVars, mmVars, scriptVars, mergeVars, submitVars, uploadVars, call, disk, soffice, requests, probes, spawned>>

\* Lines 90-92: the converter process is started.
create_subprocess_exec(t) ==
    /\ tk[t].pc = "create_subprocess_exec"
    /\ spawned' = spawned \cup {[input_path |-> tk[t].input_path,
                                  output_format |-> tk[t].output_format]}
    /\ tk' = [tk EXCEPT ![t].pc = "communicate"]
    /\ UNCHANGED <<batchVars, mmVars, scriptVars, mergeVars, submitVars, uploadVars, call, disk, soffice, requests, probes>>

\* The file the converter writes: the input's base name with the new extension,
\* in the output directory (lines 97-99).
converted_file(r) ==
    os_path_join(os_path_dirname(r.output_path),
                 stem(r.input_path.name) \o "." \o r.output_format)

\* Line 95: the process ends. It wrote the converted file and exited 0, or
\* wrote nothing and exited with an error code, or wrote nothing and exited 0.
communicate(t) ==
    /\ tk[t].pc = "communicate"
    /\ \E o \in {"converted", "failed", "nothing"} :
          /\ disk' = IF o = "converted"
                     THEN Written(disk, converted_file(tk[t]), <<Chunk("soffice", t)>>)
                     ELSE disk
          /\ tk' = [tk EXCEPT ![t].pc = "returncode",
                              ![t].returncode = IF o = "failed" THEN "1" ELSE "0"]
    /\ UNCHANGED <<batchVars, mmVars, scriptVars, mergeVars, submitVars, uploadVars, call, soffice, requests, probes, spawned>>

\* Lines 97-107: os.rename when the converter's file is not the requested one,
\* os.remove of the input when asked, and the output path is returned;
\* process.returncode is not read.
rename_remove(t) ==
    /\ tk[t].pc = "returncode"
    /\ LET r == tk[t]
           src == converted_file(r)
           renames == src # r.output_path
           removes == r.rm_original /\ r.input_path # r.output_path
           renamed == IF renames
                      THEN Written(Removed(disk, {src}), r.output_path, disk[os_path_abspath(src)])
                      ELSE disk IN
       IF renames /\ ~os_path_exists(src)
       THEN /\ tk' = [tk EXCEPT ![t] = Raise(r, "FileNotFoundError", "rename")]
            /\ UNCHANGED disk
       ELSE IF removes /\ os_path_abspath(r.input_path) \notin DOMAIN renamed
       THEN /\ tk' = [tk EXCEPT ![t] = Raise(r, "FileNotFoundError", "remove")]
            /\ disk' = renamed
       ELSE /\ disk' = IF removes THEN Removed(renamed, {r.input_path}) ELSE renamed
            /\ tk' = [tk EXCEPT ![t] = ConvertReturn(r, r.output_path)]
    /\ UNCHANGED <<batchVars, mmVars, scriptVars, mergeVars, submitVars, uploadVars, call, soffice, requests, probes, spawned>>

\* ================================================================== parsers
\* doc_parser.py lines 40-47: docx_parse_main, the parser of the converted file,
\* returns its text or raises; a file that is not there cannot be parsed.
docx_parse_main(t) ==
    /\ tk[t].pc = "docx_parse_main"
    /\ LET r == tk[t] IN
       \E o \in {"str", "Exception"} :
          /\ o = "str" => os_path_exists(r.converted)
          /\ tk' = [tk EXCEPT ![t] =
                       Adapter([r EXCEPT !.parsed = o], o,
                               IF o = "str" THEN "none" ELSE "conversion")]
    /\ UNCHANGED <<batchVars, mmVars, scriptVars, mergeVars, submitVars, uploadVars, call, disk, soffice, requests, probes, spawned>>

\* tempfile.mkdtemp(): a new directory of caller t.
mkdtemp(t) == os_path_join(Dir("/tmp"), "tmp" \o ToString(t))

\* pdf_parser.py lines 79-109 (pdf_parser_vlm.py lines 86-120): the file is read;
\* without save_parsed_content a temporary directory is made, with the directory
\* of the document in it.
read_pdf(t) ==
    /\ tk[t].pc = "read_pdf"
    /\ LET r == tk[t]
           file_name == stem(r.local_path.name) IN
       IF ~os_path_exists(r.local_path)
       THEN /\ tk' = [tk EXCEPT ![t] = Raise(r, "FileNotFoundError", "input_not_found")]
            /\ UNCHANGED disk
       ELSE IF r.save_parsed_content
       THEN /\ tk' = [tk EXCEPT ![t].pc = "doc_analyze"]
            /\ UNCHANGED disk
       ELSE /\ tk' = [tk EXCEPT ![t].pc = "doc_analyze", ![t].temp_dir = mkdtemp(t)]
            /\ disk' = Written(Written(disk, mkdtemp(t), Directory(t)),
                               os_path_join(mkdtemp(t), file_name), Directory(t))
    /\ UNCHANGED <<batchVars, mmVars, scriptVars, mergeVars, submitVars, uploadVars, call, soffice, requests, probes, spawned>>

\* FileBasedDataWriter(dir).write_string(name, ...) by caller t: the file
\* dir/name holds what (the kind of content).
write_string(d, dir, name, what, t) == Written(d, os_path_join(dir, name), <<Chunk(what, t)>>)

\* pdf_parser.py lines 160-173 (pdf_parser_vlm.py lines 143-174): what is written
\* to local_md_dir; the model output of the VLM parser is a text file.
md_writer(d, r, local_md_dir, file_name, t) ==
    LET md == write_string(d, local_md_dir, file_name \o ".md", "markdown", t)
        parsed == write_string(md, local_md_dir, file_name \o "_content_list.json",
                               "content_list", t)
        origin == write_string(parsed, local_md_dir, file_name \o "_origin.pdf", "origin", t)
        model == write_string(origin, local_md_dir,
                              file_name \o (IF r.parser = "pdf_parse_vlm_main"
                                            THEN "_model_output.txt" ELSE "_model.json"),
                              "model", t)
        middle == write_string(model, local_md_dir, file_name \o "_middle.json", "middle", t) IN
    IF r.save_middle_content THEN middle ELSE parsed

\* pdf_parser.py lines 92-98 and 111-180: the analysis returns the markdown,
\* written with save_parsed_content to local_md_dir, which is
\* output_dir/file_name/file_name, or raises, which becomes an HTTPException.
doc_analyze(t) ==
    /\ tk[t].pc = "doc_analyze"
    /\ LET r == tk[t]
           file_name == stem(r.local_path.name)
           output_path == os_path_join(r.parser_output_dir, file_name)
           local_md_dir == os_path_join(output_path, file_name) IN
       \E o \in {"str", "Exception"} :
          /\ tk' = [tk EXCEPT ![t].pc = "finally", ![t].parsed = o]
          /\ disk' = IF o = "str" /\ r.save_parsed_content
                     THEN md_writer(disk, r, local_md_dir, file_name, t)
                     ELSE disk
    /\ UNCHANGED <<batchVars, mmVars, scriptVars, mergeVars, submitVars, uploadVars, call, soffice, requests, probes, spawned>>

\* pdf_parser.py lines 181-189: without save_parsed_content, shutil.rmtree of the
\* document's directory and then of the temporary directory.
rmtree(d, r) ==
    Removed(d, {os_path_join(r.temp_dir, stem(r.local_path.name)), r.temp_dir})

\* The finally block, then the result or the exception leaves pdf_parse_main.
finally(t) ==
    /\ tk[t].pc = "finally"
    /\ LET r == tk[t] IN
       /\ disk' = IF r.save_parsed_content THEN disk ELSE rmtree(disk, r)
       /\ tk' = [tk EXCEPT ![t] =
                    Adapter(r, r.parsed, IF r.parsed = "str" THEN "none" ELSE "conversion")]
    /\ UNCHANGED <<batchVars, mmVars, scriptVars, mergeVars, submitVars, uploadVars, call, soffice, requests, probes, spawned>>

\* file_utils.py lines 33-58: md_dump_io makes output_path a directory and
\* writes file_name.md in it.
md_dump_io(d, output_path, file_name, t) ==
    write_string(Written(d, output_path, Directory(t)), output_path, file_name \o ".md",
                 "markdown", t)

\* epub_parser.py lines 48-77: pypandoc converts the file or raises; with
\* save_parsed_content, output_path is output_dir/file_name/file_name.md and is
\* handed to md_dump_io, whose failed write is a ValueError.
epub_parse_main(t) ==
    /\ tk[t].pc = "epub_parse_main"
    /\ LET r == tk[t]
           file_name == stem(r.local_path.name)
           save_parsed_dir == os_path_join(r.parser_output_dir, file_name)
           output_path == os_path_join(save_parsed_dir, file_name \o ".md") IN
       \E o \in {"str", "Exception", "ValueError"} :
          /\ o = "str" => os_path_exists(r.local_path)
          /\ o = "ValueError" => r.save_parsed_content
          /\ disk' = IF r.save_parsed_content /\ o # "Exception"
                     THEN IF o = "str"
                          THEN md_dump_io(Written(disk, save_parsed_dir, Directory(t)),
                                          output_path, file_name, t)
                          ELSE Written(disk, save_parsed_dir, Directory(t))
                     ELSE disk
          /\ tk' = [tk EXCEPT ![t] =
                       Adapter([r EXCEPT !.parsed = o], o,
                               IF o = "str" THEN "none" ELSE "conversion")]
    /\ UNCHANGED <<batchVars, mmVars, scriptVars, mergeVars, submitVars, uploadVars, call, soffice, requests, probes, spawned>>

\* run_local.py lines 209-221 and 170-185: the extension picks the parser;
\* parameter_adapter builds its arguments or raises a ValueError; the parser
\* starts by resolving the reference, to output_dir only with save_parsed_content.
task_process_file(t) ==
    /\ tk[t].pc = "process_file"
    /\ LET file_ext == suffix(tk[t].resource_path.name)
           r == [tk[t] EXCEPT !.file_ext = file_ext] IN
       tk' = [tk EXCEPT ![t] =
                IF file_ext \notin FUNCTION_MAP
                THEN [r EXCEPT !.pc = "done", !.status = "returned", !.log = "warning_unsupported"]
                ELSE IF file_ext \notin file_params
                        \/ r.resource_path = Empty
                        \/ (r.save_parsed_content /\ r.parser_output_dir = Empty)
                THEN Adapter(r, "ValueError", "parameter")
                ELSE [r EXCEPT !.pc = "process_resource_path",
                               !.parser = IF file_ext = "pdf" THEN pdf_parser_func
                                          ELSE IF file_ext = "epub" THEN "epub_parse_main"
                                          ELSE "doc_parse_main",
                               !.output_dir = IF r.save_parsed_content
                                              THEN r.parser_output_dir ELSE Empty]]
    /\ UNCHANGED <<batchVars, mmVars, scriptVars, mergeVars, submitVars, uploadVars, call, disk, soffice, requests, probes, spawned>>

\* ============================================= run_local.py, module level
\* Lines 28-36: the parser FUNCTION_MAP["pdf"] names, and what is logged. The
\* name is compared as configured, not lower-cased.
select_pdf_parser(engine) ==
    IF engine = "pipeline" THEN [func |-> "pdf_parse_main", log |-> "none"]
    ELSE IF engine = "vlm-sglang-engine" THEN [func |-> "pdf_parse_vlm_main", log |-> "none"]
    ELSE [func |-> "pdf_parse_main", log |-> "warning_invalid_engine"]

\* routers/pdf_router.py lines 101-123, routers/file_router.py lines 174-192: the
\* parser the endpoint awaits for the setting it reads at the request, or the
\* HTTPException(500) it raises for a value that is neither of the two names.
parse_pdf_file_endpoint(engine) ==
    IF engine = "pipeline" THEN "pdf_parse_main"
    ELSE IF engine = "vlm-sglang-engine" THEN "pdf_parse_vlm_main"
    ELSE "HTTPException"

\* mcps/mcp_server.py lines 148-170: the parser _parse_document awaits for a
\* ".pdf" file, or the ValueError it raises.
_parse_document(engine) ==
    IF engine = "pipeline" THEN "pdf_parse_main"
    ELSE IF engine = "vlm-sglang-engine" THEN "pdf_parse_vlm_main"
    ELSE "ValueError"

\* The script has not been imported.
ScriptInit ==
    /\ pdf_parser_func = "None"
    /\ run_local_log = "none"

\* The script as imported under the engine setting e.
ScriptImported(e) ==
    /\ pdf_parser_func = select_pdf_parser(e).func
    /\ run_local_log = select_pdf_parser(e).log

\* Lines 27-38: the import of scripts/run_local.py reads settings once.
run_local_import ==
    /\ pdf_parser_func = "None"
    /\ pdf_parser_func' = select_pdf_parser(pdf_parse_engine).func
    /\ run_local_log' = select_pdf_parser(pdf_parse_engine).log
    /\ UNCHANGED <<batchVars, mmVars, taskVars, mergeVars, submitVars, uploadVars>>

\* ============================================ run_local.py: merge_json_files
\* What open(file_path, "r", encoding="utf-8") finds: lines that are JSON
\* ("good") or not ("bad"), or bytes that are not UTF-8.
RecordLines(n) == UNION {[1..m -> {"good", "bad"}] : m \in 0..n}

\* The files a tree is made of: JSON documents, JSON-lines files, a file of
\* another type, and the output file of an earlier merge.
TreeFiles ==
    {[ext |-> "json", content |-> c, is_output_file |-> FALSE] :
        c \in {<<"good">>, <<"bad">>, <<"undecodable">>}}
    \cup {[ext |-> "jsonl", content |-> c, is_output_file |-> FALSE] :
        c \in RecordLines(MaxLines) \cup {<<"undecodable">>}}
    \cup {[ext |-> "txt", content |-> <<"bad">>, is_output_file |-> FALSE]}
    \cup {[ext |-> e, content |-> <<"good">>, is_output_file |-> TRUE] : e \in {"json", "jsonl"}}

\* The position of the first line of ls that is not JSON, Len(ls) + 1 if none.
RECURSIVE first_bad(_, _)
first_bad(ls, j) ==
    IF j > Len(ls) \/ ls[j] = "bad" THEN j ELSE first_bad(ls, j + 1)

\* Lines 370-376 for the k-th file f of the walk: the records that reach
\* merged_data and the exception that ends the reading. json.load reads the file
\* as one document; in jsonl mode extend() consumes the generator of
\* json.loads(line) and keeps what it got before a line failed. A file whose
\* extension does not go with file_type is not opened.
read_records(file_type, f, k) ==
    IF ~(file_type = f.ext /\ f.ext \in {"json", "jsonl"})
    THEN [records |-> <<>>, exc |-> "none"]
    ELSE IF f.content = <<"undecodable">>
    THEN [records |-> <<>>, exc |-> "UnicodeDecodeError"]
    ELSE LET n == first_bad(f.content, 1) IN
         [records |-> [j \in 1..(n - 1) |-> <<k, j>>],
          exc |-> IF n <= Len(f.content) THEN "JSONDecodeError" ELSE "none"]

\* No call of merge_json_files.
MergeIdle ==
    /\ merge_call = [root_folder |-> <<>>, file_type |-> "json", writable |-> TRUE,
                     spelled_alike |-> TRUE]
    /\ merge_pc = [pc |-> "none", k |-> 0, ret |-> [kind |-> "pending"],
                   calls |-> 0, previous |-> <<>>]
    /\ merged_data = <<>>
    /\ merge_log = <<>>
    /\ output_file = [written |-> FALSE]

\* The positions of tree at which the file at the path output_file is.
OutputFiles(tree) == {k \in 1..Len(tree) : tree[k].is_output_file}

\* The call is made: a tree with at most one file at the output path, a file
\* type, an output file that can be written or not, and the two spellings of
\* the output path (os.path.join(dirpath, filename) and the argument) equal or
\* not.
MergeInit ==
    /\ \E n \in 0..MaxTree : \E tree \in [1..n -> TreeFiles] :
       \E file_type \in {"json", "jsonl"}, writable \in BOOLEAN, spelled_alike \in BOOLEAN :
          /\ Cardinality(OutputFiles(tree)) <= 1
          /\ merge_call = [root_folder |-> tree, file_type |-> file_type, writable |-> writable,
                           spelled_alike |-> spelled_alike]
    /\ merge_pc = [pc |-> "merge_json_files", k |-> 0, ret |-> [kind |-> "pending"],
                   calls |-> 1, previous |-> <<>>]
    /\ merged_data = <<>>
    /\ merge_log = <<>>
    /\ output_file = [written |-> FALSE]

\* Line 364: merged_data = [], and the walk starts.
merge_json_files ==
    /\ merge_pc.pc = "merge_json_files"
    /\ merged_data' = <<>>
    /\ merge_pc' = [merge_pc EXCEPT !.pc = "os_walk", !.k = 1]
    /\ UNCHANGED <<batchVars, mmVars, scriptVars, taskVars, submitVars, uploadVars, merge_call, merge_log, output_file>>

\* Lines 365-378: one file of the walk. A file whose joined path is the string
\* output_file is passed over (line 368); a JSONDecodeError is logged and the
\* walk goes on; any other exception leaves the function.
os_walk ==
    /\ merge_pc.pc = "os_walk"
    /\ merge_pc.k <= Len(merge_call.root_folder)
    /\ LET k == merge_pc.k
           f == merge_call.root_folder[k]
           r == IF f.is_output_file /\ merge_call.spelled_alike
                THEN [records |-> <<>>, exc |-> "none"]
                ELSE read_records(merge_call.file_type, f, k) IN
       /\ merged_data' = merged_data \o r.records
       /\ merge_log' = IF r.exc = "JSONDecodeError"
                       THEN Append(merge_log, [level |-> "error", msg |-> "Error parsing", arg |-> k])
                       ELSE merge_log
       /\ merge_pc' = IF r.exc = "UnicodeDecodeError"
                      THEN [merge_pc EXCEPT !.pc = "done",
                                            !.ret = [kind |-> "raise", exc |-> r.exc]]
                      ELSE [merge_pc EXCEPT !.k = k + 1]
    /\ UNCHANGED <<batchVars, mmVars, scriptVars, taskVars, submitVars, uploadVars, merge_call, output_file>>

\* Lines 379-389: the walk is over; merged_data is written and its length
\* logged, or the IOError of the write is logged; the function returns None.
json_dump ==
    /\ merge_pc.pc = "os_walk"
    /\ merge_pc.k > Len(merge_call.root_folder)
    /\ IF merge_call.writable
       THEN /\ output_file' = [written |-> TRUE, data |-> merged_data]
            /\ merge_log' = Append(merge_log, [level |-> "info", msg |-> "Merged",
                                               arg |-> Len(merged_data)])
       ELSE /\ UNCHANGED output_file
            /\ merge_log' = Append(merge_log, [level |-> "error", msg |-> "Error writing",
                                               arg |-> 0])
    /\ merge_pc' = [merge_pc EXCEPT !.pc = "done", !.ret = [kind |-> "None"]]
    /\ UNCHANGED <<batchVars, mmVars, scriptVars, taskVars, submitVars, uploadVars, merge_call, merged_data>>

\* What the written output file holds: a line per item in jsonl mode, one
\* document (the list) in json mode.
dumped(file_type, data) ==
    [ext |-> file_type,
     content |-> IF file_type = "jsonl" THEN [j \in 1..Len(data) |-> "good"] ELSE <<"good">>,
     is_output_file |-> TRUE]

\* The tree after the write: output_file lies under root_folder (as in main(),
\* lines 398-399 and 441-446) and holds what was written.
tree_after(tree, file_type, data) ==
    IF OutputFiles(tree) = {} THEN Append(tree, dumped(file_type, data))
    ELSE [k \in 1..Len(tree) |->
             IF tree[k].is_output_file THEN dumped(file_type, data) ELSE tree[k]]

\* merge_json_files is called again with the same arguments, after a call that
\* wrote its output.
merge_json_files_again ==
    /\ merge_pc.pc = "done"
    /\ merge_pc.ret = [kind |-> "None"]
    /\ output_file.written
    /\ merge_pc.calls < MaxMerges
    /\ merge_call' = [merge_call EXCEPT !.root_folder =
                          tree_after(@, merge_call.file_type, output_file.data)]
    /\ merge_pc' = [pc |-> "merge_json_files", k |-> 0, ret |-> [kind |-> "pending"],
                    calls |-> merge_pc.calls + 1, previous |-> merged_data]
    /\ merge_log' = <<>>
    /\ UNCHANGED <<batchVars, mmVars, scriptVars, taskVars, submitVars, uploadVars, merged_data, output_file>>

\* ========================== run_local.py: process_files_in_folder_submit
\* No call of process_files_in_folder_submit.
SubmitIdle ==
    /\ submit_call = [files |-> <<>>, max_workers |-> 1, batch_size |-> 1, kwargs |-> FALSE]
    /\ submit_pc = [pc |-> "none", i |-> 0, exc |-> "none"]
    /\ futures = [f \in FileIds |-> "none"]
    /\ ran = {}

\* The call is made on a folder with n files, with parser options or without.
SubmitInit ==
    /\ \E n \in 0..MaxFiles, w \in 0..MaxWorkers, b \in -1..MaxBatch, kwargs \in BOOLEAN :
          submit_call = [files |-> [k \in 1..n |-> k], max_workers |-> w, batch_size |-> b,
                         kwargs |-> kwargs]
    /\ submit_pc = [pc |-> "process_files_in_folder_submit", i |-> 0, exc |-> "none"]
    /\ futures = [f \in FileIds |-> "none"]
    /\ ran = {}

\* Lines 280-292: the files are listed; with none the function returns.
process_files_in_folder_submit ==
    /\ submit_pc.pc = "process_files_in_folder_submit"
    /\ submit_pc' = [submit_pc EXCEPT !.pc = IF submit_call.files = <<>> THEN "returned"
                                             ELSE "ThreadPoolExecutor"]
    /\ UNCHANGED <<batchVars, mmVars, scriptVars, taskVars, mergeVars, uploadVars, submit_call, futures, ran>>

\* Line 295: ThreadPoolExecutor(max_workers) refuses a number below 1.
ThreadPoolExecutor ==
    /\ submit_pc.pc = "ThreadPoolExecutor"
    /\ submit_pc' = IF submit_call.max_workers <= 0
                    THEN [submit_pc EXCEPT !.pc = "raised", !.exc = "ValueError"]
                    ELSE [submit_pc EXCEPT !.pc = "chunked_iterable"]
    /\ UNCHANGED <<batchVars, mmVars, scriptVars, taskVars, mergeVars, uploadVars, submit_call, futures, ran>>

\* loop.run_in_executor(executor, func, *args) takes no keyword arguments: a
\* call with any is a TypeError.
run_in_executor_raises(kwargs) == kwargs

\* Lines 297-305: the next chunk of chunked_iterable and a run_in_executor call
\* for each of its files; the first call with keyword arguments raises, and so
\* does islice for a negative size; after the last chunk the futures are
\* gathered.
run_in_executor ==
    /\ submit_pc.pc = "chunked_iterable"
    /\ LET chunk == Slice(submit_call.files, submit_pc.i, submit_pc.i + submit_call.batch_size) IN
       IF islice_raises(submit_call.batch_size)
       THEN /\ submit_pc' = [submit_pc EXCEPT !.pc = "raised", !.exc = "ValueError"]
            /\ UNCHANGED futures
       ELSE IF chunk = <<>>
       THEN /\ submit_pc' = [submit_pc EXCEPT !.pc = "gather"]
            /\ UNCHANGED futures
       ELSE IF run_in_executor_raises(submit_call.kwargs)
       THEN /\ submit_pc' = [submit_pc EXCEPT !.pc = "raised", !.exc = "TypeError"]
            /\ UNCHANGED futures
       ELSE /\ submit_pc' = [submit_pc EXCEPT !.i = @ + Len(chunk)]
            /\ futures' = [f \in FileIds |-> IF f \in Elems(chunk) THEN "queued" ELSE futures[f]]
    /\ UNCHANGED <<batchVars, mmVars, scriptVars, taskVars, mergeVars, uploadVars, submit_call, ran>>

\* A worker thread of the pool takes the work item of f, while fewer than
\* max_workers threads are busy.
worker_start(f) ==
    /\ futures[f] = "queued"
    /\ Cardinality({g \in FileIds : futures[g] = "in_thread"}) < submit_call.max_workers
    /\ futures' = [futures EXCEPT ![f] = "in_thread"]
    /\ UNCHANGED <<batchVars, mmVars, scriptVars, taskVars, mergeVars, uploadVars, submit_call, submit_pc, ran>>

\* The thread calls process_file(f): process_file is "async def" (line 209), so
\* the call only builds a coroutine object; nothing awaits it and the body does
\* not run.
thread_call(f) == ran

\* The work item ends: the future's result is what the call returned.
worker_done(f) ==
    /\ futures[f] = "in_thread"
    /\ ran' = thread_call(f)
    /\ futures' = [futures EXCEPT ![f] = "coroutine"]
    /\ UNCHANGED <<batchVars, mmVars, scriptVars, taskVars, mergeVars, uploadVars, submit_call, submit_pc>>

\* Lines 306-307: gather ends when every future is done; the executor is shut
\* down and the function returns None.
submit_gather ==
    /\ submit_pc.pc = "gather"
    /\ \A f \in FileIds : futures[f] \notin {"queued", "in_thread"}
    /\ submit_pc' = [submit_pc EXCEPT !.pc = "returned"]
    /\ UNCHANGED <<batchVars, mmVars, scriptVars, taskVars, mergeVars, uploadVars, submit_call, futures, ran>>

\* ================================================ routers: upload endpoints
Requests == 1..NRequests

\* The upload endpoints that write the upload to a temp file, with the
\* extension each accepts.
UploadEndpoints == {"image", "ppt", "pptx", "pdf"}

Stems == {"a", "b"}

Absent == [inode |-> 0, bytes |-> 0]

NoRequest == [endpoint |-> "none", filename |-> "", pc |-> "none", fd |-> 0, read |-> 0,
              status |-> 0]

\* No request is made.
UploadIdle ==
    /\ upload = [r \in Requests |-> NoRequest]
    /\ tmp = <<>>

\* create_unique_temp_file(original_filename, temp_dir): a path in temp_dir
\* under a name no other request is given.
create_unique_temp_file(r, original_filename) == <<original_filename, r>>

\* The path of request r's temp file: os.path.join(temp_dir, original_filename)
\* in the image, ppt and pptx routers, create_unique_temp_file in the pdf router.
temp_path(r) ==
    IF upload[r].endpoint = "pdf"
    THEN create_unique_temp_file(r, upload[r].filename)
    ELSE <<upload[r].filename, 0>>

\* The paths a request's temp file can have.
TempPaths == {<<f, u>> : f \in UploadEndpoints \X Stems, u \in {0} \cup Requests}

\* Each request uploads a file whose name the endpoint's validation accepts;
\* two requests may carry the same name.
UploadInit ==
    /\ \E e \in [Requests -> UploadEndpoints], s \in [Requests -> Stems] :
          upload = [r \in Requests |->
                      [endpoint |-> e[r], filename |-> <<e[r], s[r]>>, pc |-> "open", fd |-> 0,
                       read |-> 0, status |-> 0]]
    /\ tmp = [p \in TempPaths |-> Absent]

\* open(temp_path, "wb"): creates the file, or truncates the one that is there.
upload_open(r) ==
    /\ upload[r].pc = "open"
    /\ LET p == temp_path(r)
           inode == IF tmp[p] = Absent THEN r ELSE tmp[p].inode IN
       /\ tmp' = [tmp EXCEPT ![p] = [inode |-> inode, bytes |-> 0]]
       /\ upload' = [upload EXCEPT ![r].pc = "write", ![r].fd = inode]
    /\ UNCHANGED <<batchVars, mmVars, scriptVars, taskVars, mergeVars, submitVars>>

\* temp.write(await file.read()): after the await the upload's bytes go to the
\* file the handle is open on, which is the one at the path unless that was
\* unlinked since.
upload_write(r) ==
    /\ upload[r].pc = "write"
    /\ LET p == temp_path(r) IN
       tmp' = IF tmp[p].inode = upload[r].fd
              THEN [tmp EXCEPT ![p].bytes = r]
              ELSE tmp
    /\ upload' = [upload EXCEPT ![r].pc = "parse", ![r].fd = 0]
    /\ UNCHANGED <<batchVars, mmVars, scriptVars, taskVars, mergeVars, submitVars>>

\* await <parser>(resource_path=temp_path, ...): the parser opens the file at
\* the path; a file that is not there is an exception.
upload_parse(r) ==
    /\ upload[r].pc = "parse"
    /\ LET p == temp_path(r) IN
       upload' = IF tmp[p] = Absent
                 THEN [upload EXCEPT ![r].pc = "finally", ![r].status = 500]
                 ELSE [upload EXCEPT ![r].pc = "parsing", ![r].read = tmp[p].bytes]
    /\ UNCHANGED <<batchVars, mmVars, scriptVars, taskVars, mergeVars, submitVars, tmp>>

\* The parser ends: its result is the response, an exception is a 500.
upload_parsed(r) ==
    /\ upload[r].pc = "parsing"
    /\ \E status \in {200, 500} :
          upload' = [upload EXCEPT ![r].pc = "finally", ![r].status = status]
    /\ UNCHANGED <<batchVars, mmVars, scriptVars, taskVars, mergeVars, submitVars, tmp>>

\* finally: if temp_path and os.path.exists(temp_path): os.unlink(temp_path).
upload_finally(r) ==
    /\ upload[r].pc = "finally"
    /\ tmp' = [tmp EXCEPT ![temp_path(r)] = Absent]
    /\ upload' = [upload EXCEPT ![r].pc = "done"]
    /\ UNCHANGED <<batchVars, mmVars, scriptVars, taskVars, mergeVars, submitVars>>

\* ------------------------------------------------- one conversion task: Init
\* The files of S, each with content written before the run.
DiskOf(S) == [p \in S |-> Old]

\* No caller, an empty disk.
TaskIdle ==
    /\ call = "none"
    /\ disk = DiskOf({})
    /\ soffice = "installed"
    /\ requests = {}
    /\ probes = {}
    /\ spawned = {}
    /\ tk = [t \in Callers |-> NoTask]

\* The references handed to process_resource_path, to download_file_from_url, to
\* convert_by_libreoffice and to process_file.
ResolveRefs == {LocalPdf, RelDoc, UrlPdf, UrlRoot, UrlDoc, FtpPdf, DrivePath, FileUrl, Empty}
DownloadUrls == {UrlPdf, MirrorPdf, UrlRoot}
ConvertInputs == {RelDoc, LocalPdf, Str("", "", "/docs", "report.docx")}
ConvertFormats == {"docx", "pptx", "pdf"}
ConvertOutputs == {Empty, Str("", "", "/docs", "final.docx")}
FilePaths == {LocalPdf, RelDoc, UrlPdf, UrlDoc, LocalHtm, LocalEpub}

\* Where a download of url with output directory d goes to.
Destination(url, d) ==
    os_path_join(IF d # Empty THEN d ELSE Dir("/tmp"),
                 IF extract_filename_from_url(url) # ""
                 THEN extract_filename_from_url(url) ELSE "downloaded_file")

\* The state a run starts in: the call with its arguments, the host's
\* LibreOffice, and a disk on which the files the call may read or write are
\* there or not.
TaskInit ==
    /\ call \in Calls
    /\ requests = {}
    /\ probes = {}
    /\ spawned = {}
    /\ CASE call = "process_resource_path" ->
             \E ref \in ResolveRefs, d \in {Empty, OutDir} :
                /\ tk = [t \in Callers |->
                            IF t = 1
                            THEN [NoTask EXCEPT !.pc = "process_resource_path", !.status = "running",
                                                !.resource_path = ref, !.output_dir = d]
                            ELSE NoTask]
                /\ soffice = "installed"
                /\ \E S \in SUBSET {os_path_abspath(ref), Destination(ref, d)} : disk = DiskOf(S)
         [] call = "download_file_from_url" ->
             \E urls \in [Callers -> DownloadUrls], d \in {Empty, OutDir} :
                /\ tk = [t \in Callers |->
                            [NoTask EXCEPT !.pc = "download_file_from_url", !.status = "running",
                                           !.url = urls[t], !.output_dir = d]]
                /\ soffice = "installed"
                /\ \E S \in SUBSET {Destination(UrlPdf, d)} : disk = DiskOf(S)
         [] call = "convert_by_libreoffice" ->
             \E inp \in ConvertInputs, fmt \in ConvertFormats, out \in ConvertOutputs,
                rm \in BOOLEAN :
                /\ tk = [t \in Callers |->
                            IF t = 1
                            THEN [NoTask EXCEPT !.pc = "convert_by_libreoffice", !.status = "running",
                                                !.input_path = inp, !.output_format = fmt,
                                                !.output_path = out, !.rm_original = rm]
                            ELSE NoTask]
                /\ soffice \in {"absent", "broken", "installed"}
                /\ \E S \in SUBSET {os_path_abspath(inp),
                                      os_path_join(os_path_dirname(os_path_abspath(inp)),
                                                   stem(inp.name) \o "." \o fmt)} :
                      disk = DiskOf(S)
         [] call = "process_file" ->
             \E ref \in FilePaths, save \in BOOLEAN, d \in {Empty, OutDir} :
             \E middle \in IF suffix(ref.name) = "pdf" THEN BOOLEAN ELSE {FALSE} :
                /\ tk = [t \in Callers |->
                            IF t = 1
                            THEN [NoTask EXCEPT !.pc = "process_file", !.status = "running",
                                                !.resource_path = ref, !.save_parsed_content = save,
                                                !.save_middle_content = middle,
                                                !.parser_output_dir = d]
                            ELSE NoTask]
                /\ soffice \in IF suffix(ref.name) = "doc"
                                THEN {"absent", "broken", "installed"} ELSE {"installed"}
                /\ \E S \in SUBSET (IF ref.scheme = "" THEN {os_path_abspath(ref)} ELSE {}) :
                      disk = DiskOf(S)

\* ------------------------------------------------------------ Next, Spec
\* The script imported under the default configuration; the ModelManager as
\* scripts/run_local.py leaves it: never called.
Init ==
    /\ BatchInit
    /\ pdf_parse_engine = "pipeline"
    /\ vlm_server_url = ""
    /\ ModelManagerInit
    /\ ScriptImported("pipeline")
    /\ TaskIdle
    /\ MergeIdle
    /\ SubmitIdle
    /\ UploadIdle

Next ==
    \/ process_files_in_folder
    \/ ConcurrentProcessor
    \/ process_files_batched
    \/ process_files_concurrent
    \/ \E f \in FileIds : process_file_with_semaphore(f)
    \/ \E f \in FileIds : semaphore_wake(f)
    \/ \E f \in FileIds, o \in Outcomes : process_file(f, o)
    \/ gather
    \/ chunked_iterable
    \/ chunked_iterable_next

Spec == Init /\ [][Next]_vars

\* The run under a fair event loop: a step that can be taken is taken (a task
\* that runs ends, a permit that is free wakes a waiter, gather resumes).
SpecLive == Init /\ [][Next]_vars /\ WF_vars(Next)

\* No batch runs while the threads call the ModelManager.
InitMM ==
    /\ BatchInit
    /\ entry = "chunked_iterable" /\ files = <<>> /\ batch_size = 1
    /\ pdf_parse_engine \in EngineSettings
    /\ vlm_server_url \in ServerUrls
    /\ ModelManagerInit
    /\ ScriptInit
    /\ TaskIdle
    /\ MergeIdle
    /\ SubmitIdle
    /\ UploadIdle

NextMM ==
    \/ settings
    \/ run_local_import
    \/ \E t \in Threads : call_initialize_models(t)
    \/ \E t \in Threads : with_lock(t)
    \/ \E t \in Threads : initialize_models(t)
    \/ \E t \in Threads : _initialize_pipeline_model(t)
    \/ \E t \in Threads : custom_model_init(t)
    \/ \E t \in Threads : set_pipeline_initialized(t)
    \/ \E t \in Threads : set_current_engine_pipeline(t)
    \/ \E t \in Threads : _initialize_vlm_model(t)
    \/ \E t \in Threads : get_model(t)
    \/ \E t \in Threads : store_model(t)
    \/ \E t \in Threads : set_vlm_initialized(t)
    \/ \E t \in Threads : set_current_engine_vlm(t)
    \/ \E t \in Threads : initialize_models_return(t)
    \/ \E t \in Threads : reset(t)
    \/ \E t \in Threads : reset_pipeline_initialized(t)
    \/ \E t \in Threads : reset_vlm_initialized(t)
    \/ \E t \in Threads : reset_current_engine(t)
    \/ \E t \in Threads : reset_initialization_error(t)
    \/ \E t \in Threads : reset_models(t)

SpecMM == InitMM /\ [][NextMM]_vars

\* One call of a caller of the conversion layer: no batch runs, the ModelManager
\* is not called, the script is imported under the configured engine name.
InitTask ==
    /\ BatchInit
    /\ entry = "chunked_iterable" /\ files = <<>> /\ batch_size = 1
    /\ TaskInit
    /\ MergeIdle
    /\ SubmitIdle
    /\ UploadIdle
    /\ pdf_parse_engine \in IF call = "process_file" /\ suffix(tk[1].resource_path.name) = "pdf"
                             THEN {"pipeline", "vlm-sglang-engine", "vlm-sglang-client"}
                             ELSE {"pipeline"}
    /\ vlm_server_url = ""
    /\ ModelManagerInit
    /\ ScriptImported(pdf_parse_engine)

NextTask ==
    \/ \E t \in Callers : task_process_file(t)
    \/ \E t \in Callers : epub_parse_main(t)
    \/ \E t \in Callers : process_resource_path(t)
    \/ \E t \in Callers : download_file_from_url(t)
    \/ \E t \in Callers : session_get(t)
    \/ \E t \in Callers : aiofiles_open(t)
    \/ \E t \in Callers : iter_chunked(t)
    \/ \E t \in Callers : convert_by_libreoffice(t)
    \/ \E t \in Callers : input_path(t)
    \/ \E t \in Callers : create_subprocess_exec(t)
    \/ \E t \in Callers : communicate(t)
    \/ \E t \in Callers : rename_remove(t)
    \/ \E t \in Callers : docx_parse_main(t)
    \/ \E t \in Callers : read_pdf(t)
    \/ \E t \in Callers : doc_analyze(t)
    \/ \E t \in Callers : finally(t)

SpecTask == InitTask /\ [][NextTask]_vars

\* One call of merge_json_files: nothing else runs.
InitMerge ==
    /\ BatchInit
    /\ entry = "chunked_iterable" /\ files = <<>> /\ batch_size = 1
    /\ pdf_parse_engine = "pipeline"
    /\ vlm_server_url = ""
    /\ ModelManagerInit
    /\ ScriptImported("pipeline")
    /\ TaskIdle
    /\ MergeInit
    /\ SubmitIdle
    /\ UploadIdle

NextMerge ==
    \/ merge_json_files
    \/ os_walk
    \/ json_dump
    \/ merge_json_files_again

SpecMerge == InitMerge /\ [][NextMerge]_vars

\* One call of process_files_in_folder_submit: nothing else runs.
InitSubmit ==
    /\ BatchInit
    /\ entry = "chunked_iterable" /\ files = <<>> /\ batch_size = 1
    /\ pdf_parse_engine = "pipeline"
    /\ vlm_server_url = ""
    /\ ModelManagerInit
    /\ ScriptImported("pipeline")
    /\ TaskIdle
    /\ MergeIdle
    /\ SubmitInit
    /\ UploadIdle

NextSubmit ==
    \/ process_files_in_folder_submit
    \/ ThreadPoolExecutor
    \/ run_in_executor
    \/ \E f \in FileIds : worker_start(f)
    \/ \E f \in FileIds : worker_done(f)
    \/ submit_gather

SpecSubmit == InitSubmit /\ [][NextSubmit]_vars

\* The requests of the upload endpoints, served on one event loop: nothing
\* else runs.
InitUpload ==
    /\ BatchInit
    /\ entry = "chunked_iterable" /\ files = <<>> /\ batch_size = 1
    /\ pdf_parse_engine = "pipeline"
    /\ vlm_server_url = ""
    /\ ModelManagerInit
    /\ ScriptImported("pipeline")
    /\ TaskIdle
    /\ MergeIdle
    /\ SubmitIdle
    /\ UploadInit

NextUpload ==
    \/ \E r \in Requests : upload_open(r)
    \/ \E r \in Requests : upload_write(r)
    \/ \E r \in Requests : upload_parse(r)
    \/ \E r \in Requests : upload_parsed(r)
    \/ \E r \in Requests : upload_finally(r)

SpecUpload == InitUpload /\ [][NextUpload]_vars

\* ===================================================== claims: batch runner
Batched == entry \in {"process_files_in_folder", "process_files_batched"}

\* process_files_batched was called and has returned.
BatchedReturned == Batched /\ pc = "returned" /\ processor

Raisers == {f \in FileIds : raised[f] \in ExceptionKinds \cup BaseExceptionKinds}

CeilDiv(n, b) == (n + b - 1) \div b

\* C1: whatever the interleaving, the tasks that hold a semaphore permit (are
\* inside process_file) never number more than max_workers.
C1_PermitBound == Cardinality(Running) <= max_workers

\* C1 witness: every permit of a two-permit semaphore is held and a third task waits.
C1_Witness ==
    /\ max_workers = 2
    /\ Cardinality(Running) = 2
    /\ \E f \in FileIds : task[f] = "waiting"

\* C2: an exception raised while handling one file touches no sibling task, never
\* reaches the caller of the batch, and leaves no file of any chunk unprocessed:
\* the only exception the caller can see is raised before any task exists, every
\* file before the loop index has ended, and on return every file has ended.
C2_NoPropagation ==
    Batched =>
        /\ exc # "none" => \A f \in FileIds : task[f] = "none"
        /\ pc \in {"loop", "returned", "raised"} =>
              \A k \in 1..Min(i, Len(supported_files)) : task[supported_files[k]] = "done"
        /\ (pc = "returned" /\ batch_size >= 1) =>
              \A f \in Elems(supported_files) : task[f] = "done"

C2_SiblingsUntouched ==
    \A f \in FileIds :
        (task[f] = "running" /\ task'[f] = "done" /\ raised'[f] \notin ReturnKinds) =>
            \A g \in FileIds \ {f} :
                task'[g] = task[g] /\ result'[g] = result[g] /\ log'[g] = log[g]

C2_FaultIsolation == [](C2_NoPropagation) /\ [][C2_SiblingsUntouched]_vars

\* C2 witness: the batch returned although the first file's handling raised (an
\* Exception in one run, a CancelledError in another); its chunk sibling and the
\* file of the next chunk were parsed.
C2_Witness ==
    /\ BatchedReturned
    /\ Len(chunks) = 2 /\ Len(chunks[1]) = 2
    /\ raised[chunks[1][1]] = "CancelledError"
    /\ raised[chunks[1][2]] = "str"
    /\ raised[chunks[2][1]] = "str"

ErrorRecords == {"error_parameter", "error_file_not_found", "error_processing"}

Partitioned == IF Batched THEN supported_files ELSE files

PartitionDone ==
    \/ BatchedReturned
    \/ entry = "chunked_iterable" /\ pc = "exhausted"

\* C4: for batch_size B >= 1 the slicing of process_files_batched and
\* chunked_iterable produce ceil(N/B) chunks, in input order, each of size B but
\* possibly the last, which is not empty; their concatenation is the input; an
\* empty list gives no chunk and starts no task.
C4_Partition ==
    (PartitionDone /\ batch_size >= 1) =>
        /\ Len(chunks) = CeilDiv(Len(Partitioned), batch_size)
        /\ Flatten(chunks) = Partitioned
        /\ \A k \in 1..Len(chunks) :
              /\ Len(chunks[k]) >= 1
              /\ Len(chunks[k]) <= batch_size
              /\ k < Len(chunks) => Len(chunks[k]) = batch_size
        /\ Partitioned = <<>> => chunks = <<>> /\ \A f \in FileIds : task[f] = "none"

\* C4 witness: three files in chunks of two: a full chunk and a shorter last one,
\* from the slicing loop and from the generator.
C4_Witness ==
    /\ PartitionDone
    /\ batch_size = 2
    /\ chunks = << <<1, 2>>, <<3>> >>

\* C5: a batch or chunk size of zero or less is rejected with a ValueError before
\* any chunk is produced or any task runs: the call (here on a list that is not
\* empty) never ends normally.
C5_Rejected ==
    (batch_size <= 0 /\ files # <<>>) =>
        /\ ~BatchedReturned
        /\ pc # "exhausted"
        /\ pc = "raised" => exc = "ValueError"
        /\ chunks = <<>>
        /\ \A f \in FileIds : task[f] = "none"

\* ===================================================== claims: ModelManager
ResetPcs == {"reset_pipeline_initialized", "reset_vlm_initialized",
             "reset_current_engine", "reset_initialization_error", "reset_models"}

\* A reset() is between its first and its last write.
Resetting == \E t \in Threads : tpc[t] \in ResetPcs

\* The threads inside "with self._lock".
Critical == {t \in Threads : tpc[t] \notin {"idle", "with_lock"}}

\* Thread t takes the step that evaluates the early returns of initialize_models.
Enters(t) == tpc[t] = "initialize_models" /\ tpc'[t] # "initialize_models"

\* C6: between two resets each heavy loader (custom_model_init, get_model) is
\* called at most once and, once a call has returned True, exactly one load has
\* succeeded; a call made when an engine is hot returns True and changes nothing.
C6_LoadedOnce ==
    /\ loads.pipeline <= 1
    /\ loads.vlm <= 1
    /\ loads.ok <= 1
    /\ (lastRet.thread # 0 /\ lastRet.ret) => loads.ok = 1

C6_SecondCallNoOp ==
    \A t \in Threads :
        (Enters(t) /\ current_engine # "None" /\ initialization_error = "None") =>
            /\ tpc'[t] = "idle"
            /\ lastRet'.thread = t
            /\ lastRet'.ret
            /\ lastRet'.engine = current_engine
            /\ UNCHANGED <<mmState, loads, attempts>>

C6_Idempotent == [](C6_LoadedOnce) /\ [][C6_SecondCallNoOp]_vars

\* C6 witness: with the configuration unchanged, a first call loaded the model and
\* a second call returned True at the early return.
C6_Witness ==
    /\ firstRet.thread # 0 /\ firstRet.ret /\ firstRet.early = "none"
    /\ firstRet.configured = lower(pdf_parse_engine)
    /\ lastRet.ret /\ lastRet.early = "hot"
    /\ loads.ok = 1

\* C7: with an error recorded, an initialize_models call returns False at once,
\* loads nothing and changes nothing; only reset() changes a recorded error (it
\* clears it); with no error and no engine, as after reset(), a call attempts the
\* initialization.
C7_Remembered ==
    /\ \A t \in Threads :
          (Enters(t) /\ initialization_error # "None") =>
              /\ tpc'[t] = "idle"
              /\ lastRet'.thread = t
              /\ ~lastRet'.ret
              /\ lastRet'.error = initialization_error
              /\ UNCHANGED <<mmState, loads, attempts>>
    /\ (initialization_error # "None" /\ initialization_error' # initialization_error) =>
          /\ initialization_error' = "None"
          /\ \E t \in Threads : tpc[t] = "reset_initialization_error" /\ tpc'[t] = "reset_models"
    /\ \A t \in Threads :
          (Enters(t) /\ initialization_error = "None" /\ current_engine = "None") =>
              /\ attempts' = attempts + 1
              /\ tpc'[t] \in {"_initialize_pipeline_model", "_initialize_vlm_model"}

C7_FailureRemembered == [][C7_Remembered]_vars

\* C7 witness: a reset() cleared a recorded error, the next call attempted the
\* initialization and failed, and a later call returned False at the early return.
C7_Witness ==
    /\ retried
    /\ firstRet.thread # 0 /\ ~firstRet.ret /\ firstRet.early = "none"
    /\ ~lastRet.ret /\ lastRet.early = "error"
    /\ initialization_error # "None"

C9_ThreadSafe ==
    /\ Cardinality(Critical) <= 1
    /\ \A t \in Critical : lock = t
    /\ attempts <= 1
    /\ lastRet.thread # 0 =>
          /\ lastRet.ret = firstRet.ret
          /\ lastRet.engine = firstRet.engine
          /\ lastRet.error = firstRet.error
          /\ lastRet.ret => (lastRet.engine # "None" /\ lastRet.error = "None")
          /\ ~lastRet.ret => (lastRet.engine = "None" /\ lastRet.error # "None")

\* C9 witness: two different threads have returned and, with one thread inside
\* the critical section again, the other waits for the lock.
C9_Witness ==
    /\ firstRet.thread # 0 /\ lastRet.thread # 0
    /\ firstRet.thread # lastRet.thread
    /\ \E t \in Threads : tpc[t] = "with_lock" /\ lock \notin {0, t}

\* C10: a call whose VLM load raised went on to the pipeline load; if that
\* succeeded the call returned True, the pipeline engine is the one hot and no
\* error is recorded; if it raised too the call returned False, the error is
\* recorded and no engine is hot.
C10_VlmFallback ==
    (lastRet.thread # 0 /\ lastRet.vlm = "raise") =>
        /\ lastRet.configured \in VlmEngines
        /\ lastRet.pipeline \in {"ok", "raise"}
        /\ lastRet.pipeline = "ok" =>
              /\ lastRet.ret
              /\ lastRet.engine = "pipeline" /\ lastRet.error = "None"
              /\ current_engine = "pipeline" /\ initialization_error = "None"
              /\ pipeline_initialized /\ ~vlm_initialized
        /\ lastRet.pipeline = "raise" =>
              /\ ~lastRet.ret
              /\ lastRet.engine = "None"
              /\ lastRet.error = failed_to_initialize(lastRet.configured)
              /\ current_engine = "None" /\ initialization_error = lastRet.error
              /\ ~pipeline_initialized /\ ~vlm_initialized /\ models = {}

\* C10 witness: configured for a VLM engine, the VLM load raised, the pipeline
\* load succeeded and the call returned True.
C10_Witness ==
    /\ lastRet.thread # 0
    /\ lastRet.configured = "vlm-sglang-engine"
    /\ lastRet.vlm = "raise" /\ lastRet.pipeline = "ok"
    /\ lastRet.ret
    /\ current_engine = "pipeline"

\* ================================================= claims: engine selection
\* The names initialize_models knows, whatever their case.
Recognized(e) == lower(e) \in PipelineEngines \cup VlmEngines

\* The import of scripts/run_local.py takes place in this step.
Imports == pdf_parser_func = "None" /\ pdf_parser_func' # "None"

\* initialize_models of thread t, configured for the client engine, validates
\* the configuration while no server URL is set; then returns.
C11_ModelManager ==
    \A t \in Threads :
        /\ ( /\ tpc[t] = "_initialize_vlm_model" /\ tpc'[t] # "_initialize_vlm_model"
             /\ frame[t].engine = "vlm-sglang-client"
             /\ vlm_server_url = "" /\ ~vlm_initialized ) =>
                /\ tpc'[t] = "return"
                /\ ~frame'[t].success
                /\ frame'[t].vlm = "none" /\ frame'[t].pipeline = "none"
                /\ UNCHANGED <<mmState, loads>>
        /\ ( /\ tpc[t] = "return" /\ tpc'[t] = "idle"
             /\ frame[t].engine = "vlm-sglang-client" /\ frame[t].vlm = "none" ) =>
                /\ ~lastRet'.ret
                /\ lastRet'.error = failed_to_initialize("vlm-sglang-client")
                /\ initialization_error' = lastRet'.error
                /\ current_engine' = "None" /\ models' = {}
                /\ ~pipeline_initialized' /\ ~vlm_initialized'

C11_Script ==
    (Imports /\ pdf_parse_engine = "vlm-sglang-client" /\ vlm_server_url = "") =>
        pdf_parser_func' # "pdf_parse_main"

\* C11: with the engine configured as "vlm-sglang-client" and no server URL set,
\* selection fails and does not degrade: initialize_models returns False with the
\* error recorded, loads nothing and leaves no engine hot, and the import of
\* scripts/run_local.py does not make the pipeline parser the PDF parser.
C11_FailsNotDegrades == [][C11_ModelManager /\ C11_Script]_vars

\* C12: an engine name that is not recognized is replaced by the pipeline engine:
\* an initialize_models call that read such a name tried the pipeline load only
\* and, when it succeeded, returned True with current_engine = "pipeline" (False
\* when the load raised); the import of scripts/run_local.py under such a name
\* logs a warning and makes pdf_parse_main the parser for "pdf".
C12_ModelManager ==
    (lastRet.thread # 0 /\ lastRet.early = "none" /\ ~Recognized(lastRet.configured)) =>
        /\ lastRet.vlm = "none"
        /\ lastRet.pipeline \in {"ok", "raise"}
        /\ lastRet.pipeline = "ok" =>
              /\ lastRet.ret
              /\ lastRet.engine = "pipeline" /\ lastRet.error = "None"
              /\ current_engine = "pipeline" /\ pipeline_initialized /\ ~vlm_initialized
        /\ lastRet.pipeline = "raise" => ~lastRet.ret

C12_Script ==
    (Imports /\ ~Recognized(pdf_parse_engine)) =>
        /\ pdf_parser_func' = "pdf_parse_main"
        /\ run_local_log' = "warning_invalid_engine"

C12_UnknownIsPipeline == [](C12_ModelManager) /\ [][C12_Script]_vars

\* C12 witness: under the name "mineru" the script was imported with the pipeline
\* parser and a warning, and an initialize_models call that read "mineru" loaded
\* the pipeline model and returned True.
C12_Witness ==
    /\ pdf_parse_engine = "mineru"
    /\ pdf_parser_func = "pdf_parse_main" /\ run_local_log = "warning_invalid_engine"
    /\ lastRet.thread # 0 /\ lastRet.configured = "mineru" /\ lastRet.early = "none"
    /\ lastRet.pipeline = "ok" /\ lastRet.ret
    /\ current_engine = "pipeline"

\* ================================================ claims: conversion task
\* The paths of the disk that hold a chunk written by w for caller t.
Holding(w, t) == {p \in DOMAIN disk : Chunk(w, t) \in Elems(disk[p])}

\* The temporary directory of pdf_parse_main is gone when the task has ended.
C13_TempDirRemoved ==
    \A t \in Callers :
        (call = "process_file" /\ tk[t].pc = "done" /\ ~tk[t].save_parsed_content) =>
            Holding("dir", t) = {}

\* C13: without save_parsed_content, when a conversion task has ended (with a
\* result or with any failure) none of its temporary resources is on the disk:
\* not the temporary directory of the PDF parser, not the file downloaded for a
\* URL reference, not the file LibreOffice converted a doc to.
C13_NothingLeft ==
    \A t \in Callers :
        (call = "process_file" /\ tk[t].pc = "done" /\ ~tk[t].save_parsed_content) =>
            /\ Holding("dir", t) = {}
            /\ tk[t].dl_path # Empty => ~os_path_exists(tk[t].dl_path)
            /\ Holding("download", t) = {}
            /\ Holding("soffice", t) = {}

\* ========================================= claims: errors that are not per task
\* LibreOffice is missing when task t needed it.
DependencyMissing(t) == tk[t].cause \in {"not_installed", "soffice_not_found"}

\* Task t is a PDF task under an engine configuration that names the client
\* engine without a server URL.
ConfigurationInvalid(t) ==
    /\ tk[t].file_ext = "pdf" /\ tk[t].parser # "none"
    /\ pdf_parse_engine = "vlm-sglang-client" /\ vlm_server_url = ""

\* C14: a missing dependency or a configuration error inside a task is not
\* downgraded to a logged failure of that task: the exception of a .doc task that
\* found no LibreOffice leaves process_file (so the batch can fail), with no error
\* record written in its place, and a PDF task under an invalid engine
\* configuration does not end as a success.
C14_NotDowngraded ==
    \A t \in Callers :
        (call = "process_file" /\ tk[t].pc = "done") =>
            /\ DependencyMissing(t) =>
                  tk[t].status = "raised" /\ tk[t].log \notin ErrorRecords
            /\ ConfigurationInvalid(t) => tk[t].log # "info_success"

\* ============================================ claims: resolving a reference
\* Caller t asked process_resource_path for a path with no URL scheme.
LocalReference(t) ==
    /\ call = "process_resource_path"
    /\ tk[t].resource_path # Empty
    /\ urlparse(tk[t].resource_path).scheme = ""

\* The reference comes back as it is, and nothing was requested over the network.
C15_SameString(t) ==
    /\ requests = {}
    /\ tk[t].pc \in {"process_resource_path", "done"}
    /\ tk[t].pc = "done" => tk[t].status = "returned" /\ tk[t].ret = tk[t].resource_path

\* No step of the call changes the disk.
C15_WritesNothing == (\E t \in Callers : LocalReference(t)) => UNCHANGED disk

NotHttpReference(t) ==
    /\ call = "process_resource_path" /\ tk[t].pc # "none"
    /\ urlparse(tk[t].resource_path).scheme \notin {"http", "https"}

\* C16: only http and https references are downloaded: a reference with any
\* other scheme (ftp, s3, a drive letter) or none is never handed to
\* download_file_from_url, and process_resource_path returns it unchanged without
\* raising.
C16_OnlyHttpDownloaded ==
    \A t \in Callers :
        NotHttpReference(t) =>
            /\ tk[t].pc \in {"process_resource_path", "done"}
            /\ tk[t].url = Empty /\ tk[t].dl_path = Empty
            /\ tk[t].pc = "done" =>
                  /\ tk[t].status = "returned"
                  /\ tk[t].ret = tk[t].resource_path

\* ===================================================== claims: downloading
\* Caller t of download_file_from_url opens its destination in this step.
Opens(t) ==
    /\ call = "download_file_from_url"
    /\ tk[t].pc = "aiofiles_open" /\ tk'[t].pc # "aiofiles_open"

\* C17: a download never overwrites a file: whenever a caller of
\* download_file_from_url opens its destination, whatever the other callers have
\* done, a file that is already at that path (from before the run, or written by
\* another caller under the same derived name) keeps its content.
C17_NeverOverwrites ==
    [][\A t \in Callers :
          (Opens(t) /\ os_path_exists(tk[t].dl_path)) =>
              /\ os_path_abspath(tk[t].dl_path) \in DOMAIN disk'
              /\ disk'[os_path_abspath(tk[t].dl_path)] = disk[os_path_abspath(tk[t].dl_path)]]_vars

\* ====================================================== claims: converting
\* The converter process of caller t has ended in failure: it exited with a
\* non-zero code, or the file it was to write is not there.
ConversionFailed(t) ==
    /\ call = "convert_by_libreoffice"
    /\ tk[t].pc = "returncode"
    /\ tk[t].returncode = "1" \/ ~os_path_exists(converted_file(tk[t]))

\* C18: convert_by_libreoffice checks the outcome of the converter process: after
\* a non-zero exit code, or when the expected output file is missing, the call
\* ends by raising, returns no output path, and renames and deletes nothing.
C18_OutcomeChecked ==
    [][\A t \in Callers :
          (ConversionFailed(t) /\ tk'[t].pc # "returncode") =>
              /\ tk'[t].status = "raised"
              /\ tk'[t].ret = Empty
              /\ UNCHANGED disk]_vars

\* A precondition of the conversion caller t asked for does not hold: no
\* converter binary, an input format or an output format that is not listed.
PreconditionFails(t) ==
    /\ call = "convert_by_libreoffice" /\ tk[t].pc # "none"
    /\ \/ soffice = "absent"
       \/ suffix(tk[t].input_path.name) \notin {"doc", "docx", "ppt", "pptx"}
       \/ tk[t].output_format \notin {"docx", "pptx"}

\* Under a failing precondition no converter process is started, no file is
\* touched, and the call ends by raising.
C19_FailsBeforeSpawn ==
    /\ [](\A t \in Callers : PreconditionFails(t) =>
            /\ spawned = {}
            /\ tk[t].pc = "done" => tk[t].status = "raised" /\ tk[t].ret = Empty)
    /\ [][(\E t \in Callers : PreconditionFails(t)) => UNCHANGED disk]_vars

\* The exception of an absent binary is the function's own: the check has
\* returned False and line 56 raised.
C19_CheckReturnsFalse ==
    \A t \in Callers :
        (PreconditionFails(t) /\ soffice = "absent" /\ tk[t].installed # "none") =>
            /\ tk[t].installed = "False"
            /\ tk[t].pc = "done" => tk[t].cause = "not_installed"

\* C19: the converter process is spawned only when all preconditions hold: with
\* the binary absent, or an input format other than doc/docx/ppt/pptx, or an
\* output format other than docx/pptx, convert_by_libreoffice raises, of itself
\* (check_libreoffice_installed having returned False for an absent binary),
\* before a process is started and without touching a file.
C19_SpawnedOnlyWhenReady == C19_FailsBeforeSpawn /\ [](C19_CheckReturnsFalse)

\* ======================================================= claims: merging
\* The files of the tree that merge_json_files has to read.
RecordFiles ==
    {k \in 1..Len(merge_call.root_folder) :
        /\ ~merge_call.root_folder[k].is_output_file
        /\ merge_call.root_folder[k].ext = merge_call.file_type}

\* The records of the tree: <<k, j>> is line j of file k (the document, in
\* json mode); a file that cannot be decoded holds one malformed record.
WellFormed ==
    {r \in RecordFiles \X (1..MaxLines) :
        /\ r[2] <= Len(merge_call.root_folder[r[1]].content)
        /\ merge_call.root_folder[r[1]].content[r[2]] = "good"}

Malformed ==
    {r \in RecordFiles \X (1..MaxLines) :
        /\ r[2] <= Len(merge_call.root_folder[r[1]].content)
        /\ merge_call.root_folder[r[1]].content[r[2]] # "good"}

ParseErrors == SelectSeq(merge_log, LAMBDA l : l.msg = "Error parsing")

\* The call has ended with exactly the well-formed records merged, in walk
\* order, and written whenever the output file can be written.
MergedWellFormed ==
    /\ merge_pc.ret.kind # "raise"
    /\ Elems(merged_data) = WellFormed
    /\ Len(merged_data) = Cardinality(WellFormed)
    /\ merge_call.writable => output_file = [written |-> TRUE, data |-> merged_data]

\* C20: merge_json_files is fault tolerant per record: on a tree with k
\* well-formed and m malformed records it never aborts the walk, merges exactly
\* the k well-formed records, returns k, logs exactly m parse errors and still
\* writes the output file; in jsonl mode a malformed line costs that line only.
C20_PerRecordTolerant ==
    merge_pc.pc = "done" =>
        /\ MergedWellFormed
        /\ merge_pc.ret = [kind |-> "int", n |-> Cardinality(WellFormed)]
        /\ Len(ParseErrors) = Cardinality(Malformed)

\* The walk visits, in this step, the file at the output path.
VisitsOutput ==
    /\ merge_pc.pc = "os_walk"
    /\ merge_pc.k <= Len(merge_call.root_folder)
    /\ merge_call.root_folder[merge_pc.k].is_output_file
    /\ merge_pc' # merge_pc

\* The output file is excluded from the walk: nothing is read from it.
C21_OutputExcluded == VisitsOutput => UNCHANGED <<merged_data, merge_log>>

\* The output file is written only when the walk has passed every file.
C21_WrittenAfterWalk ==
    output_file' # output_file =>
        merge_pc.pc = "os_walk" /\ merge_pc.k > Len(merge_call.root_folder)

\* A repeated merge that has returned merged what the call before it merged.
C21_RepeatSame ==
    (merge_pc.pc = "done" /\ merge_pc.calls > 1 /\ merge_pc.ret = [kind |-> "None"]) =>
        merged_data = merge_pc.previous

\* C21: merge_json_files never reads its own output as an input: in any sequence
\* of merge calls over one root folder that holds the output file, however the
\* output path is spelled, the file at the output path is excluded from the
\* walk, a repeated merge yields the same merged records, and the output file is
\* written only after all files have been visited.
C21_NeverReadsOwnOutput ==
    /\ [](C21_RepeatSame)
    /\ [][C21_OutputExcluded /\ C21_WrittenAfterWalk]_vars

\* ================================================ claims: the format registry
\* The format keys the registry is to have (test_function_map_completeness).
expected_types == {"pdf", "img", "doc", "ppt", "pptx", "html", "htm", "docx", "url", "xlsx", "epub"}

\* C23: the format registry is complete and consistent: a file whose extension
\* is one of the format keys pdf, img, doc, ppt, pptx, html, htm, docx, url,
\* xlsx, epub, or a key parameter_adapter accepts, has a parser in FUNCTION_MAP,
\* and process_file does not skip it as unsupported.
C23_RegistryComplete ==
    \A t \in Callers :
        ( /\ call = "process_file" /\ tk[t].pc = "done"
          /\ tk[t].file_ext \in expected_types \cup file_params ) =>
            /\ tk[t].file_ext \in FUNCTION_MAP
            /\ tk[t].log # "warning_unsupported"

\* ================================================= claims: persisted layout
\* Caller t's process_file has saved its result: pdf_parse_main,
\* pdf_parse_vlm_main or epub_parse_main returned the Markdown with
\* save_parsed_content set.
Saved(t) ==
    /\ call = "process_file" /\ tk[t].pc = "done"
    /\ tk[t].file_ext \in {"pdf", "epub"}
    /\ tk[t].save_parsed_content /\ tk[t].parsed = "str"

\* output_dir/<stem>, with <stem> the input file name without its extension.
StemDir(t) == os_path_join(tk[t].parser_output_dir, stem(tk[t].local_path.name))

\* The file of caller t named <stem> followed by tail, in output_dir/<stem>.
InStemDir(t, tail) == os_path_join(StemDir(t), stem(tk[t].local_path.name) \o tail)

\* C22: with save_parsed_content a parser persists the Markdown at exactly
\* output_dir/<stem>/<stem>.md, and the PDF parsers place
\* <stem>_content_list.json and, with the intermediate artifacts requested,
\* <stem>_origin.pdf, <stem>_model.json and <stem>_middle.json in that directory.
C22_PersistedLayout ==
    \A t \in Callers :
        Saved(t) =>
            /\ Holding("markdown", t) = {InStemDir(t, ".md")}
            /\ tk[t].file_ext = "pdf" =>
                  /\ Holding("content_list", t) = {InStemDir(t, "_content_list.json")}
                  /\ tk[t].save_middle_content =>
                        /\ Holding("origin", t) = {InStemDir(t, "_origin.pdf")}
                        /\ Holding("model", t) = {InStemDir(t, "_model.json")}
                        /\ Holding("middle", t) = {InStemDir(t, "_middle.json")}

\* ================================================ claims: chunks and permits
\* The tasks in flight: created by gather and not yet done.
InFlight == {f \in FileIds : task[f] \in {"created", "waiting", "running"}}

\* C24: chunk-level backpressure: process_files_batched starts no task of a
\* chunk before every task of the chunks before it is done, with a result or an
\* exception: the tasks in flight all belong to the chunk gather is waiting for,
\* every file of an earlier chunk is done, no file of a later chunk has a task,
\* and at most min(batch_size, max_workers) tasks are running (none when
\* batch_size is below 1 and there is no chunk).
C24_ChunkBackpressure ==
    (Batched /\ processor) =>
        /\ InFlight # {} => pc = "gather" /\ InFlight \subseteq Elems(batch)
        /\ \A k \in 1..(Len(chunks) - 1) : \A f \in Elems(chunks[k]) : task[f] = "done"
        /\ \A f \in FileIds : f \notin Elems(Flatten(chunks)) => task[f] = "none"
        /\ Cardinality(Running) <= IF batch_size >= 1 THEN Min(batch_size, max_workers) ELSE 0

\* A task of the second chunk runs; the first chunk is done, one of its tasks
\* with an exception.
C24_Witness ==
    /\ Batched /\ processor /\ Len(chunks) = 2
    /\ \E f \in Elems(chunks[2]) : task[f] = "running"
    /\ \E f \in Elems(chunks[1]) : task[f] = "done" /\ raised[f] \in ExceptionKinds
    /\ Len(chunks[1]) > 1

\* The permits are accounted for: those not in the semaphore are held by the
\* running tasks, and all are back when process_files_batched has returned.
C25_PermitsAccounted ==
    (Batched /\ processor) =>
        /\ semaphore + Cardinality(Running) = max_workers
        /\ BatchedReturned => semaphore = max_workers /\ Running = {}

\* The body of process_file runs for f in this step.
Works(f) == <<raised[f], log[f], result[f]>>' # <<raised[f], log[f], result[f]>>

\* Work is done under a permit only, and its end gives the permit back.
C25_WorkUnderPermit ==
    \A f \in FileIds :
        /\ Works(f) => task[f] = "running" /\ task'[f] = "done" /\ semaphore' = semaphore + 1
        /\ (task[f] = "running" /\ task'[f] # "running") => semaphore' = semaphore + 1
        /\ (task[f] # "running" /\ task'[f] = "running") => semaphore' = semaphore - 1

\* C25: the permit is scoped to the whole task and released on every exit path:
\* a task takes its permit before any of its work, holds it until process_file
\* has returned or raised, then gives it back; when process_files_batched
\* returns, all max_workers permits are available again.
C25_PermitScoped == [](C25_PermitsAccounted) /\ [][C25_WorkUnderPermit]_vars

\* The batch has returned with all permits back after a task that raised and a
\* task that had to wait for a permit.
C25_Witness ==
    /\ BatchedReturned /\ max_workers = 1 /\ semaphore = 1
    /\ Len(chunks) >= 1 /\ Len(chunks[1]) >= 2
    /\ \E f \in FileIds : task[f] = "done" /\ raised[f] \in ExceptionKinds \cup BaseExceptionKinds

\* The batch has returned with every file of the list processed.
AllProcessed ==
    /\ pc = "returned"
    /\ \A f \in Elems(supported_files) : task[f] = "done"

\* C26: liveness of the batch runner: for every max_workers the constructor
\* accepts, 0 included, and every batch_size >= 1, with every task terminating,
\* a call of process_files_batched eventually returns with every file of its
\* list processed: no task waits for a permit forever.
C26_EventuallyReturns ==
    (Batched /\ processor /\ batch_size >= 1) ~> AllProcessed

\* With at least one permit the batch does return.
C26_ReturnsWithPermit ==
    (Batched /\ processor /\ batch_size >= 1 /\ max_workers >= 1) ~> AllProcessed

\* ============================ claims: process_files_in_folder_submit
\* The call of process_files_in_folder_submit has returned.
SubmitReturned == submit_pc.pc = "returned"

InThread == {f \in FileIds : futures[f] = "in_thread"}

\* C30: process_files_in_folder_submit processes every file it finds, with or
\* without parser options: it does not fail on the options, when it has
\* returned the body of process_file has run to completion for each of the N
\* files, and at most max_workers of them execute at once.
C30_EveryFileProcessed ==
    /\ submit_pc.exc # "TypeError"
    /\ SubmitReturned => ran = Elems(submit_call.files)
    /\ Cardinality(InThread) <= submit_call.max_workers

\* The part of C30 that holds: at most max_workers work items are in a thread.
C30_AtMostMaxWorkers == Cardinality(InThread) <= submit_call.max_workers

\* What the code does instead: no body of process_file ever runs.
C30_NoBodyRuns == ran = {}

\* ================================================ claims: upload endpoints
\* Request r's parser is at work on r's temp file.
Parsing(r) == upload[r].pc = "parsing"

\* The file at request r's temp path is there and holds r's upload.
TempIntact(r) == tmp[temp_path(r)] = [inode |-> r, bytes |-> r]

\* Request r runs its cleanup in this step.
Cleans(r) == upload[r].pc = "finally" /\ upload'[r].pc = "done"

\* While a request is parsing its temp file, no other request has overwritten
\* or deleted that file.
C27_NotDisturbedWhileParsing == \A r \in Requests : Parsing(r) => TempIntact(r)

\* A request's cleanup deletes no file but the one the request created.
C27_DeletesOwnOnly ==
    \A r \in Requests : Cleans(r) /\ tmp[temp_path(r)] # Absent => tmp[temp_path(r)].inode = r

\* C27: for any interleaving of two requests to the upload endpoints, also with
\* the same file name, a request's temp file is never overwritten or deleted
\* by another request while the first is still parsing it, and each request
\* deletes only the temp file it created.
C27_TempFilesIsolated == [](C27_NotDisturbedWhileParsing) /\ [][C27_DeletesOwnOnly]_vars

\* The part of C27 that holds: requests whose temp paths differ (two pdf
\* uploads, or uploads under different names) do not disturb each other.
C27_DistinctPathsIsolated ==
    \A r \in Requests :
        (\A q \in Requests \ {r} : temp_path(q) # temp_path(r)) /\ Parsing(r) => TempIntact(r)

\* ================================================== claims: ModelManager state
\* An engine is hot.
Hot == current_engine # "None"

\* An initialization error is recorded.
ErrorRecorded == initialization_error # "None"

\* C28: ModelManager never is both hot and failed: a hot engine implies that no
\* initialization error is recorded, a recorded error implies that no engine is
\* hot and no model handle is stored; so is_initialized() is true exactly when
\* an engine is hot, and initialize_models returned True exactly when
\* is_initialized() holds at its return and from then on.
C28_NeverHotAndFailed ==
    /\ Hot => ~ErrorRecorded
    /\ ErrorRecorded => ~Hot /\ models = {}
    /\ is_initialized(current_engine, initialization_error) <=> Hot
    /\ lastRet.thread # 0 =>
          /\ lastRet.ret <=> is_initialized(lastRet.engine, lastRet.error)
          /\ lastRet.ret <=> is_initialized(current_engine, initialization_error)

\* C28 witness: after a recorded failure and a reset, initialize_models has
\* returned True with a VLM engine hot and its model handle stored.
C28_Witness ==
    /\ retried
    /\ lastRet.thread # 0 /\ lastRet.ret
    /\ current_engine \in VlmEngines
    /\ models # {}

\* C28 witness of the failed side: initialize_models has returned False and the
\* error is recorded.
C28_WitnessFailed == lastRet.thread # 0 /\ ~lastRet.ret /\ ErrorRecorded

\* ==================================================== claims: engine selection
\* The parser of the engine ModelManager reports as hot.
ParserOf(engine) ==
    IF engine = "pipeline" THEN "pdf_parse_main"
    ELSE IF engine \in VlmEngines THEN "pdf_parse_vlm_main"
    ELSE "None"

\* What each PDF dispatch site does under the engine setting e: the HTTP
\* routers, the MCP server, the batch script.
DispatchSites(e) ==
    {parse_pdf_file_endpoint(e), _parse_document(e), select_pdf_parser(e).func}

\* initialize_models has succeeded for the value pdf_parse_engine has now.
InitializedFor(e) ==
    /\ lastRet.thread # 0 /\ lastRet.ret /\ lastRet.early = "none"
    /\ lastRet.configured = lower(e)
    /\ Hot

\* C29: for every value of pdf_parse_engine for which initialize_models
\* succeeds, each PDF dispatch site accepts the value and invokes the parser of
\* the engine ModelManager reports as hot, also after a VLM-to-pipeline
\* fallback.
C29_EngineConsistent ==
    InitializedFor(pdf_parse_engine) =>
        DispatchSites(pdf_parse_engine) = {ParserOf(current_engine)}

\* The part of C29 that holds: under "pipeline", and under "vlm-sglang-engine"
\* when the VLM load succeeded, every site invokes the parser of the hot engine.
C29_ConsistentForTwoNames ==
    ( /\ InitializedFor(pdf_parse_engine)
      /\ \/ pdf_parse_engine = "pipeline"
         \/ pdf_parse_engine = "vlm-sglang-engine" /\ lastRet.vlm = "ok" ) =>
        DispatchSites(pdf_parse_engine) = {ParserOf(current_engine)}

\* After a VLM-to-pipeline fallback under "vlm-sglang-engine" every site invokes
\* the VLM parser while the pipeline engine is hot.
C29_FallbackMismatch ==
    ( /\ InitializedFor(pdf_parse_engine)
      /\ pdf_parse_engine = "vlm-sglang-engine" /\ lastRet.vlm = "raise" ) =>
        /\ current_engine = "pipeline"
        /\ DispatchSites(pdf_parse_engine) = {"pdf_parse_vlm_main"}
====
